---- MODULE Spec2Model ----
(***************************************************************************)
(* A model of project-renamer: the case converter, the pattern set and the *)
(* content rewriter of ProjectRenamer, the run of rename_project over a    *)
(* project tree, the entry points that configure a run, and the            *)
(* structured file handlers.                                               *)
(*                                                                         *)
(* Text is a sequence of one-character strings.  A path is a sequence of   *)
(* names, relative to config.project_path.  Log output is not modelled.    *)
(***************************************************************************)
EXTENDS Integers, Sequences, FiniteSets, TLC

(***************************************************************************)
(* Characters and the str methods the program uses (ASCII).                *)
(***************************************************************************)
Lc == << "a","b","c","d","e","f","g","h","i","j","k","l","m",
         "n","o","p","q","r","s","t","u","v","w","x","y","z" >>

Uc == << "A","B","C","D","E","F","G","H","I","J","K","L","M",
         "N","O","P","Q","R","S","T","U","V","W","X","Y","Z" >>

Digits == { "0","1","2","3","4","5","6","7","8","9" }

Whitespace == { " ", "\t", "\n" }

IsLowerChar(c) == \E i \in 1..26 : Lc[i] = c

IsUpperChar(c) == \E i \in 1..26 : Uc[i] = c

IsCased(c) == IsLowerChar(c) \/ IsUpperChar(c)

LowerChar(c) == IF IsUpperChar(c) THEN Lc[CHOOSE i \in 1..26 : Uc[i] = c] ELSE c

UpperChar(c) == IF IsLowerChar(c) THEN Uc[CHOOSE i \in 1..26 : Lc[i] = c] ELSE c

\* str.lower()
Lower(s) == [i \in 1..Len(s) |-> LowerChar(s[i])]

\* str.upper()
Upper(s) == [i \in 1..Len(s) |-> UpperChar(s[i])]

\* str.capitalize(): first character upper-cased, the rest lower-cased
Capitalize(s) == [i \in 1..Len(s) |-> IF i = 1 THEN UpperChar(s[i]) ELSE LowerChar(s[i])]

\* str.title(): a cased character is upper-cased after an uncased one (or at
\* the start) and lower-cased after a cased one
Title(s) ==
  [i \in 1..Len(s) |->
     IF i > 1 /\ IsCased(s[i-1]) THEN LowerChar(s[i]) ELSE UpperChar(s[i])]

\* str.isupper(): at least one cased character and no lowercase one
IsUpperStr(s) ==
  /\ \E i \in 1..Len(s) : IsCased(s[i])
  /\ \A i \in 1..Len(s) : ~IsLowerChar(s[i])

\* str.islower()
IsLowerStr(s) ==
  /\ \E i \in 1..Len(s) : IsCased(s[i])
  /\ \A i \in 1..Len(s) : ~IsUpperChar(s[i])

\* str.istitle()
IsTitleStr(s) ==
  /\ \E i \in 1..Len(s) : IsCased(s[i])
  /\ \A i \in 1..Len(s) :
       /\ IsUpperChar(s[i]) => (i = 1 \/ ~IsCased(s[i-1]))
       /\ IsLowerChar(s[i]) => (i > 1 /\ IsCased(s[i-1]))

\* s[i..] starts with p (str.startswith at an offset)
StartsAt(s, i, p) ==
  /\ i + Len(p) - 1 <= Len(s)
  /\ \A k \in 1..Len(p) : s[i + k - 1] = p[k]

\* the `in` operator on strings
Contains(s, p) == \E i \in 1..(Len(s) + 1) : StartsAt(s, i, p)

\* str.endswith
EndsWith(s, p) == Len(p) <= Len(s) /\ StartsAt(s, Len(s) - Len(p) + 1, p)

RECURSIVE ReplaceFrom(_, _, _, _)
ReplaceFrom(s, i, old, new) ==
  IF i > Len(s) THEN << >>
  ELSE IF StartsAt(s, i, old) THEN new \o ReplaceFrom(s, i + Len(old), old, new)
  ELSE << s[i] >> \o ReplaceFrom(s, i + 1, old, new)

RECURSIVE Interleave(_, _, _)
Interleave(s, i, new) ==
  IF i > Len(s) THEN new ELSE new \o << s[i] >> \o Interleave(s, i + 1, new)

\* str.replace(old, new): every non-overlapping occurrence, left to right;
\* an empty old matches before every character and at the end
StrReplace(s, old, new) ==
  IF Len(old) = 0 THEN Interleave(s, 1, new) ELSE ReplaceFrom(s, 1, old, new)

(***************************************************************************)
(* CaseConverter: ProjectRenamer._to_pascal_case, _to_snake_case,          *)
(* _to_kebab_case.                                                         *)
(***************************************************************************)
\* the character class [-_\s]
IsSeparator(c) == c = "-" \/ c = "_" \/ c \in Whitespace

RECURSIVE SplitFrom(_, _, _)
\* re.split(r'[-_\s]+', s): the fragments between separator runs; cur is the
\* fragment being read.  A leading or trailing run gives an empty fragment.
SplitFrom(s, i, cur) ==
  IF i > Len(s) THEN << cur >>
  ELSE IF IsSeparator(s[i])
       THEN IF i > 1 /\ IsSeparator(s[i-1])
            THEN SplitFrom(s, i + 1, cur)
            ELSE << cur >> \o SplitFrom(s, i + 1, << >>)
       ELSE SplitFrom(s, i + 1, Append(cur, s[i]))

SplitWords(s) == SplitFrom(s, 1, << >>)

RECURSIVE JoinCapitalized(_, _)
JoinCapitalized(words, i) ==
  IF i > Len(words) THEN << >>
  ELSE Capitalize(words[i]) \o JoinCapitalized(words, i + 1)

to_pascal_case(text) == JoinCapitalized(SplitWords(text), 1)

\* the length of the longest run of [a-z] starting at s[i]
RECURSIVE LowerRun(_, _)
LowerRun(s, i) ==
  IF i <= Len(s) /\ IsLowerChar(s[i]) THEN 1 + LowerRun(s, i + 1) ELSE 0

RECURSIVE SnakeFirst(_, _)
\* re.sub('(.)([A-Z][a-z]+)', r'\1_\2', s) from position i: '.' is any
\* character but a newline, the lowercase run is greedy, and the scan resumes
\* after the match
SnakeFirst(s, i) ==
  IF i > Len(s) THEN << >>
  ELSE IF /\ s[i] # "\n"
          /\ i + 2 <= Len(s)
          /\ IsUpperChar(s[i+1])
          /\ LowerRun(s, i + 2) >= 1
       THEN LET n == LowerRun(s, i + 2)
            IN  << s[i], "_" >> \o SubSeq(s, i + 1, i + 1 + n) \o SnakeFirst(s, i + 2 + n)
       ELSE << s[i] >> \o SnakeFirst(s, i + 1)

RECURSIVE SnakeSecond(_, _)
\* re.sub('([a-z0-9])([A-Z])', r'\1_\2', s) from position i
SnakeSecond(s, i) ==
  IF i > Len(s) THEN << >>
  ELSE IF /\ (IsLowerChar(s[i]) \/ s[i] \in Digits)
          /\ i + 1 <= Len(s)
          /\ IsUpperChar(s[i+1])
       THEN << s[i], "_", s[i+1] >> \o SnakeSecond(s, i + 2)
       ELSE << s[i] >> \o SnakeSecond(s, i + 1)

to_snake_case(text) == Lower(SnakeSecond(SnakeFirst(text, 1), 1))

RECURSIVE KebabFrom(_, _)
\* re.sub(r'[-_\s]+', '-', s) from position i
KebabFrom(s, i) ==
  IF i > Len(s) THEN << >>
  ELSE IF IsSeparator(s[i])
       THEN IF i > 1 /\ IsSeparator(s[i-1])
            THEN KebabFrom(s, i + 1)
            ELSE << "-" >> \o KebabFrom(s, i + 1)
       ELSE << s[i] >> \o KebabFrom(s, i + 1)

to_kebab_case(text) == KebabFrom(Lower(text), 1)

(***************************************************************************)
(* PatternSet and ContentRewriter: ProjectRenamer._compile_patterns and    *)
(* the substitution loop of _modify_file_content.                          *)
(***************************************************************************)
\* the literal pattern p (re.escape) matches s at position i; ic is
\* re.IGNORECASE
MatchAt(s, i, p, ic) ==
  /\ i + Len(p) - 1 <= Len(s)
  /\ \A k \in 1..Len(p) :
       IF ic THEN LowerChar(s[i + k - 1]) = LowerChar(p[k])
             ELSE s[i + k - 1] = p[k]

\* pattern.search(content)
PatternSearch(s, p, ic) == \E i \in 1..(Len(s) + 1) : MatchAt(s, i, p, ic)

RECURSIVE SubFrom(_, _, _, _, _)
SubFrom(s, i, p, ic, repl) ==
  IF i > Len(s) THEN << >>
  ELSE IF MatchAt(s, i, p, ic) THEN repl \o SubFrom(s, i + Len(p), p, ic, repl)
  ELSE << s[i] >> \o SubFrom(s, i + 1, p, ic, repl)

\* pattern.sub(repl, content): one left-to-right pass over the non-overlapping
\* matches; the empty pattern matches before every character and at the end
PatternSub(s, p, ic, repl) ==
  IF Len(p) = 0 THEN Interleave(s, 1, repl) ELSE SubFrom(s, 1, p, ic, repl)

\* self.patterns of the branch without preserve_case: the four literals, in
\* the order they are compiled
Patterns(old_name) ==
  << old_name, to_pascal_case(old_name), to_snake_case(old_name), to_kebab_case(old_name) >>

\* flags = 0 if case_sensitive else re.IGNORECASE
IgnoreCase(case_sensitive) == ~case_sensitive

RECURSIVE ApplyPatterns(_, _, _, _, _)
ApplyPatterns(text, pats, k, ic, new_name) ==
  IF k > Len(pats) THEN text
  ELSE ApplyPatterns(PatternSub(text, pats[k], ic, new_name), pats, k + 1, ic, new_name)

\* modified_content of _modify_file_content: every pattern applied in turn
\* to the output of the one before
Rewrite(text, old_name, new_name, case_sensitive) ==
  ApplyPatterns(text, Patterns(old_name), 1, IgnoreCase(case_sensitive), new_name)

\* the loop of _contains_target_text over a content that was read
ContainsTarget(text, old_name, case_sensitive) ==
  \E k \in 1..4 : PatternSearch(text, Patterns(old_name)[k], IgnoreCase(case_sensitive))

(***************************************************************************)
(* RenameConfig defaults and NameResolver: _is_excluded,                   *)
(* _should_rename_file, _should_rename_directory, _should_modify_file,     *)
(* _generate_new_name.                                                     *)
(***************************************************************************)
DefaultFileTypes ==
  { <<".","p","y">>,
    <<".","j","s">>,
    <<".","t","s">>,
    <<".","j","s","x">>,
    <<".","t","s","x">>,
    <<".","j","a","v","a">>,
    <<".","c","p","p">>,
    <<".","c">>,
    <<".","h">>,
    <<".","c","s">>,
    <<".","p","h","p">>,
    <<".","r","b">>,
    <<".","g","o">>,
    <<".","r","s">>,
    <<".","s","w","i","f","t">>,
    <<".","k","t">>,
    <<".","s","c","a","l","a">>,
    <<".","h","t","m","l">>,
    <<".","h","t","m">>,
    <<".","c","s","s">>,
    <<".","s","c","s","s">>,
    <<".","s","a","s","s">>,
    <<".","l","e","s","s">>,
    <<".","j","s","o","n">>,
    <<".","x","m","l">>,
    <<".","y","a","m","l">>,
    <<".","y","m","l">>,
    <<".","t","o","m","l">>,
    <<".","i","n","i">>,
    <<".","c","f","g">>,
    <<".","c","o","n","f">>,
    <<".","m","d">>,
    <<".","t","x","t">>,
    <<".","r","s","t">>,
    <<".","a","d","o","c">>,
    <<".","s","h">>,
    <<".","b","a","t">>,
    <<".","p","s","1">>,
    <<".","d","o","c","k","e","r","f","i","l","e">>,
    <<".","d","o","c","k","e","r","i","g","n","o","r","e">>,
    <<".","g","i","t","i","g","n","o","r","e">>,
    <<".","g","i","t","a","t","t","r","i","b","u","t","e","s">>,
    <<".","e","n","v">>,
    <<".","e","n","v",".","e","x","a","m","p","l","e">>,
    <<"D","o","c","k","e","r","f","i","l","e">>,
    <<"d","o","c","k","e","r","-","c","o","m","p","o","s","e",".","y","m","l">>,
    <<"d","o","c","k","e","r","-","c","o","m","p","o","s","e",".","y","a","m","l">>,
    <<"p","a","c","k","a","g","e",".","j","s","o","n">>,
    <<"r","e","q","u","i","r","e","m","e","n","t","s",".","t","x","t">>,
    <<"s","e","t","u","p",".","p","y">>,
    <<"p","y","p","r","o","j","e","c","t",".","t","o","m","l">>,
    <<"M","a","k","e","f","i","l","e">>,
    <<"C","M","a","k","e","L","i","s","t","s",".","t","x","t">>,
    <<"p","o","m",".","x","m","l">>,
    <<"b","u","i","l","d",".","g","r","a","d","l","e">> }
DefaultExcludePatterns ==
  { <<".","g","i","t">>,
    <<"_","_","p","y","c","a","c","h","e","_","_">>,
    <<".","p","y","t","e","s","t","_","c","a","c","h","e">>,
    <<"n","o","d","e","_","m","o","d","u","l","e","s">>,
    <<".","v","e","n","v">>,
    <<"v","e","n","v">>,
    <<"e","n","v">>,
    <<".","e","n","v">>,
    <<".","i","d","e","a">>,
    <<".","v","s","c","o","d","e">>,
    <<"*",".","e","g","g","-","i","n","f","o">>,
    <<"d","i","s","t">>,
    <<"b","u","i","l","d">>,
    <<".","t","o","x">>,
    <<".","c","o","v","e","r","a","g","e">>,
    <<"*",".","p","y","c">>,
    <<"*",".","p","y","o">>,
    <<"*",".","p","y","d">>,
    <<".","D","S","_","S","t","o","r","e">>,
    <<"T","h","u","m","b","s",".","d","b">> }
\* the index of the last '.' of a name, 0 when there is none
RECURSIVE LastDot(_, _)
LastDot(name, i) ==
  IF i = 0 THEN 0 ELSE IF name[i] = "." THEN i ELSE LastDot(name, i - 1)

\* PurePath.suffix: from the last dot, unless the dot leads or ends the name
Suffix(name) ==
  LET i == LastDot(name, Len(name))
  IN  IF 1 < i /\ i < Len(name) THEN SubSeq(name, i, Len(name)) ELSE << >>

\* PurePath.stem
Stem(name) ==
  LET i == LastDot(name, Len(name))
  IN  IF 1 < i /\ i < Len(name) THEN SubSeq(name, 1, i - 1) ELSE name

\* one turn of the loop of _is_excluded
ExcludedBy(pattern, name) ==
  \/ StartsAt(pattern, 1, << "*", "." >>) /\ EndsWith(name, Tail(pattern))
  \/ pattern = name
  \/ Contains(name, pattern)

_is_excluded(name) == \E pattern \in DefaultExcludePatterns : ExcludedBy(pattern, name)

_should_rename_file(name, old_name) ==
  \/ name = old_name
  \/ to_snake_case(Stem(name)) = to_snake_case(old_name)
  \/ to_pascal_case(Stem(name)) = to_pascal_case(old_name)

\* the third test compares the PascalCase form of the name with itself
_should_rename_directory(name, old_name) ==
  \/ name = old_name
  \/ to_snake_case(name) = to_snake_case(old_name)
  \/ to_pascal_case(name) = to_pascal_case(name)

_should_modify_file(name) == Lower(Suffix(name)) \in DefaultFileTypes

\* a _generate_new_name without the snake_case branch
_generate_new_name_NoSnake(original_name, old_name, new_name) ==
  IF original_name = old_name THEN new_name
  ELSE IF Lower(original_name) = Lower(old_name) THEN Lower(new_name)
  ELSE IF Upper(original_name) = Upper(old_name) THEN Upper(new_name)
  ELSE IF Title(original_name) = Title(old_name) THEN Title(new_name)
  ELSE IF to_pascal_case(original_name) = to_pascal_case(old_name) THEN to_pascal_case(new_name)
  ELSE new_name

_generate_new_name(original_name, old_name, new_name) ==
  IF original_name = old_name THEN new_name
  ELSE IF Lower(original_name) = Lower(old_name) THEN Lower(new_name)
  ELSE IF Upper(original_name) = Upper(old_name) THEN Upper(new_name)
  ELSE IF Title(original_name) = Title(old_name) THEN Title(new_name)
  ELSE IF to_snake_case(original_name) = to_snake_case(old_name) THEN to_snake_case(new_name)
  ELSE IF to_pascal_case(original_name) = to_pascal_case(old_name) THEN to_pascal_case(new_name)
  ELSE new_name

\* fnmatch of shutil.ignore_patterns for the shapes of the default patterns:
\* a leading '*' matches any prefix, every other character is literal
IgnoredByCopy(name) ==
  \E pattern \in DefaultExcludePatterns :
     IF Len(pattern) > 0 /\ Head(pattern) = "*"
     THEN EndsWith(name, Tail(pattern))
     ELSE name = pattern

(***************************************************************************)
(* The project tree.  fs.dirs is the set of directories below the project  *)
(* root, fs.files maps the path of every file to its content.              *)
(***************************************************************************)
Root == << >>

Parent(p) == SubSeq(p, 1, Len(p) - 1)

Name(p) == p[Len(p)]

IsFile(f, p) == p \in DOMAIN f.files

IsDir(f, p) == p = Root \/ p \in f.dirs

Exists(f, p) == IsFile(f, p) \/ IsDir(f, p)

FileNamesIn(f, d) == { Name(p) : p \in { q \in DOMAIN f.files : Parent(q) = d } }

DirNamesIn(f, d) == { Name(p) : p \in { q \in f.dirs : Parent(q) = d } }

\* the orders in which a directory listing can return the names of S
Perms(S) ==
  { p \in [1..Cardinality(S) -> S] : \A i, j \in 1..Cardinality(S) : i # j => p[i] # p[j] }

\* bounds of the project trees explored
MaxEntries == 2

MaxLocked == 1

N_ab == << "a", "b" >>

N_c == << "c" >>

N_d == << "d" >>

N_ab_c == << "a", "b", ".", "c" >>

N_x_h == << "x", ".", "h" >>

T_aB == << "a", "B" >>

T_x == << "x" >>

\* the entries a project tree is made of: a path with the content of the
\* file, or the path of a directory
CandidateFiles ==
  { << << N_ab >>, T_x >>, << << N_c >>, T_x >>,
    << << N_ab_c >>, T_aB >>, << << N_ab_c >>, T_x >>,
    << << N_x_h >>, T_aB >>,
    << << N_d, N_ab >>, T_x >> }

CandidateDirs == { << N_d >> }

Trees ==
  { t \in [ dirs : SUBSET CandidateDirs, files : SUBSET CandidateFiles ] :
      /\ Cardinality(t.dirs) + Cardinality(t.files) <= MaxEntries
      /\ \A e1, e2 \in t.files : e1[1] = e2[1] => e1 = e2
      /\ \A e \in t.files : Parent(e[1]) = Root \/ Parent(e[1]) \in t.dirs }

MakeFs(t) ==
  [ dirs  |-> t.dirs,
    files |-> [ p \in { e[1] : e \in t.files } |-> (CHOOSE e \in t.files : e[1] = p)[2] ] ]

BackupName == <<"b","a","c","k","u","p","_","2","0","2","6","1","1","0","6","_","0","0","5","6","2","8">>

\* no component of the path is skipped by the ignore function of copytree
Copied(p) == \A i \in 1..Len(p) : ~IgnoredByCopy(p[i])

\* shutil.copytree(project_path, backup_dir, ignore=...): the tree as listed
\* before backup_dir is made, without the files of `failed`
CopyTree(f, failed) ==
  LET cd == { d \in f.dirs : Copied(d) }
      cf == { p \in DOMAIN f.files : Copied(p) /\ p \notin failed }
  IN  [ dirs  |-> f.dirs \cup { << BackupName >> } \cup { << BackupName >> \o d : d \in cd },
        files |-> [ p \in DOMAIN f.files \cup { << BackupName >> \o q : q \in cf } |->
                      IF p \in DOMAIN f.files THEN f.files[p]
                      ELSE f.files[Tail(p)] ] ]

\* os.rename(src, dst) of a file: "ok" or the exception raised.  On POSIX an
\* existing file at dst is replaced, on Windows FileExistsError is raised.
RenameOutcome(f, locked, platform, src, dst) ==
  IF ~IsFile(f, src) THEN "FileNotFoundError"
  ELSE IF src \in locked THEN "PermissionError"
  ELSE IF dst = src THEN "ok"
  ELSE IF IsDir(f, dst) THEN "IsADirectoryError"
  ELSE IF IsFile(f, dst) /\ platform = "nt" THEN "FileExistsError"
  ELSE IF IsFile(f, dst) /\ dst \in locked THEN "PermissionError"
  ELSE "ok"

\* the tree after a successful os.rename(src, dst) of a file
Renamed(f, src, dst) ==
  [ dirs  |-> f.dirs,
    files |-> [ p \in (DOMAIN f.files \ { src }) \cup { dst } |->
                  IF p = dst THEN f.files[src] ELSE f.files[p] ] ]

(***************************************************************************)
(* State of one invocation.                                                *)
(***************************************************************************)
VARIABLES
  config,          \* RenameConfig / ProjectRenamerConfig of the run
  env,             \* entry point, platform, and the immutable files of the tree
  fs,              \* the project tree
  pc,              \* position of the invocation
  walk,            \* directories os.walk has still to visit
  scan_results,    \* the dictionary scan_project builds
  idx,             \* position in the list the current phase iterates over
  success,         \* the local variable success of rename_project
  changed_files,   \* ProjectRenamer.changed_files
  errors,          \* ProjectRenamer.errors
  backup_paths,    \* ProjectRenamer.backup_paths
  result,          \* what the invocation returned or raised
  tree0,           \* history: the tree when the invocation started
  ops,             \* history: the filesystem operations attempted, in order
  reported,        \* history: the decisions _log_dry_run_results logged
  attempted,       \* history: the scheduled operations a live run attempted
  call             \* a call of a pure function: its arguments and its value

vars ==
  << config, env, fs, pc, walk, scan_results, idx, success, changed_files,
     errors, backup_paths, result, tree0, ops, reported, attempted, call >>

EmptyScan ==
  [ files_to_modify |-> << >>, files_to_rename |-> << >>,
    directories_to_rename |-> << >>, total_files |-> 0, total_directories |-> 0 ]

\* the identifier pairs and the flags a run is configured with
Identifiers == { << >>, N_ab, N_c }

Configs ==
  [ old_name : Identifiers \ { N_c }, new_name : Identifiers,
    backup_enabled : BOOLEAN, dry_run : BOOLEAN,
    case_sensitive : BOOLEAN, preserve_case : BOOLEAN ]

EntryPoints == { "cli", "cli_config", "project_renamer_main" }

Platforms == { "posix", "nt" }

Init ==
  /\ config \in Configs
  /\ \E t \in Trees :
       /\ fs = MakeFs(t)
       /\ tree0 = MakeFs(t)
       /\ \E l \in SUBSET { e[1] : e \in t.files } :
            /\ Cardinality(l) <= MaxLocked
            /\ env \in [ entry : EntryPoints, platform : Platforms, locked : { l } ]
  /\ pc = "start"
  /\ walk = << >>
  /\ scan_results = EmptyScan
  /\ idx = 1
  /\ success = TRUE
  /\ changed_files = << >>
  /\ errors = << >>
  /\ backup_paths = << >>
  /\ result = "none"
  /\ ops = << >>
  /\ reported = { }
  /\ attempted = { }
  /\ call = [ fn |-> "none" ]

(***************************************************************************)
(* Entry points: cli.main (with and without --config) and                  *)
(* project_renamer.main.                                                   *)
(***************************************************************************)
\* display_validation_results: TRUE when no issue is found (the project path
\* exists and is writable)
display_validation_results(c) ==
  /\ c.old_name # << >>
  /\ c.new_name # << >>
  /\ c.old_name # c.new_name

\* ConfigLoader._validate_and_finalize: "ok" or the exception raised
_validate_and_finalize(c) ==
  IF c.old_name = << >> \/ c.new_name = << >> \/ c.old_name = c.new_name
  THEN "ValueError" ELSE "ok"

\* the test of parser.error in cli.main when no --config is given
ArgumentsMissing(c) == c.old_name = << >> \/ c.new_name = << >>

\* the outcome of the validation an entry point does before it constructs a
\* ProjectRenamer: "ok", or how the invocation ends
ValidationOutcome(entry, c) ==
  IF entry = "project_renamer_main" THEN "ok"
  ELSE IF entry = "cli" /\ ArgumentsMissing(c) THEN "parser.error"
  ELSE IF entry = "cli_config" /\ _validate_and_finalize(c) # "ok" THEN "ValueError"
  ELSE IF ~display_validation_results(c) THEN "return 1"
  ELSE "ok"

EntryPoint ==
  /\ pc = "start"
  /\ LET v == ValidationOutcome(env.entry, config)
     IN  IF v = "ok"
         THEN pc' = "configured" /\ result' = result
         ELSE pc' = "rejected" /\ result' = v
  /\ UNCHANGED << config, env, fs, walk, scan_results, idx, success, changed_files,
                  errors, backup_paths, tree0, ops, reported, attempted, call >>

\* ProjectRenamer.__init__: _compile_patterns passes repl= to re.compile in
\* the preserve_case branch, which raises TypeError
_compile_patterns(c) == IF c.preserve_case THEN "TypeError" ELSE "ok"

Construct ==
  /\ pc = "configured"
  /\ IF _compile_patterns(config) = "ok"
     THEN pc' = "ready" /\ result' = result
     ELSE pc' = "raised" /\ result' = _compile_patterns(config)
  /\ UNCHANGED << config, env, fs, walk, scan_results, idx, success, changed_files,
                  errors, backup_paths, tree0, ops, reported, attempted, call >>

(***************************************************************************)
(* ProjectRenamer.rename_project, one action per step.                     *)
(***************************************************************************)
Op(kind, path, target, outcome) ==
  [ op |-> kind, path |-> path, target |-> target, outcome |-> outcome, existed |-> FALSE ]

\* a rename_project that goes on whatever create_backup returned
AfterBackup_Ignored(ok) == "scan"

\* `if not self.create_backup(): return False`: where rename_project goes on
AfterBackup(ok) == IF ok THEN "scan" ELSE "done"

\* create_backup, and the test of its value in rename_project.  copytree
\* fails before it makes backup_dir, or after it has copied all but one file.
CreateBackup ==
  /\ pc = "ready"
  /\ IF ~config.backup_enabled
     THEN /\ pc' = AfterBackup(TRUE)
          /\ UNCHANGED << fs, backup_paths, ops >>
     ELSE \/ /\ ~Exists(fs, << BackupName >>)
             /\ fs' = CopyTree(fs, { })
             /\ backup_paths' = Append(backup_paths, << BackupName >>)
             /\ ops' = Append(ops, Op("backup", Root, << BackupName >>, "ok"))
             /\ pc' = AfterBackup(TRUE)
          \/ /\ ops' = Append(ops, Op("backup", Root, << BackupName >>, "OSError"))
             /\ pc' = AfterBackup(FALSE)
             /\ UNCHANGED << fs, backup_paths >>
          \/ /\ ~Exists(fs, << BackupName >>)
             /\ \E p \in DOMAIN fs.files :
                  /\ Copied(p)
                  /\ fs' = CopyTree(fs, { p })
             /\ ops' = Append(ops, Op("backup", Root, << BackupName >>, "shutil.Error"))
             /\ pc' = AfterBackup(FALSE)
             /\ UNCHANGED backup_paths
  /\ walk' = IF pc' = "scan" THEN << Root >> ELSE walk
  /\ result' = IF pc' = "done" THEN "False" ELSE result
  /\ UNCHANGED << config, env, scan_results, idx, success, changed_files, errors,
                  tree0, reported, attempted, call >>

\* the paths root / name for the names of a listing, in its order
PathsOf(root, names) == [ i \in 1..Len(names) |-> Append(root, names[i]) ]

\* one iteration of the os.walk loop of scan_project: the directory at the
\* head of the walk is listed (in any order), excluded names are dropped, the
\* files and directories are tested, and the walk goes on with the
\* directories that were kept.  After the last directory rename_project
\* goes on with the report of a dry run or with the first phase.
ScanStep ==
  /\ pc = "scan"
  /\ walk # << >>
  /\ LET root == Head(walk)
     IN  \E forder \in Perms(FileNamesIn(fs, root)), dorder \in Perms(DirNamesIn(fs, root)) :
           LET kept     == SelectSeq(dorder, LAMBDA n : ~_is_excluded(n))
               files    == SelectSeq(forder, LAMBDA n : ~_is_excluded(n))
               toRename == SelectSeq(files, LAMBDA n : _should_rename_file(n, config.old_name))
               toModify == SelectSeq(files, LAMBDA n :
                              /\ _should_modify_file(n)
                              /\ ContainsTarget(fs.files[Append(root, n)],
                                                config.old_name, config.case_sensitive))
               dirsToRename == SelectSeq(kept, LAMBDA n : _should_rename_directory(n, config.old_name))
               rest     == PathsOf(root, kept) \o Tail(walk)
           IN  /\ scan_results' =
                    [ files_to_modify |-> scan_results.files_to_modify \o PathsOf(root, toModify),
                      files_to_rename |-> scan_results.files_to_rename \o PathsOf(root, toRename),
                      directories_to_rename |->
                          scan_results.directories_to_rename \o PathsOf(root, dirsToRename),
                      total_files |-> scan_results.total_files + Len(files),
                      total_directories |-> scan_results.total_directories + Len(kept) ]
               /\ walk' = rest
               /\ pc' = IF rest # << >> THEN "scan"
                        ELSE IF config.dry_run THEN "report" ELSE "rename_files"
  /\ UNCHANGED << config, env, fs, idx, success, changed_files, errors, backup_paths,
                  result, tree0, ops, reported, attempted, call >>

\* a decision: what is to be done to a path, and the path it is to get
Decision(kind, path) ==
  [ op |-> kind, path |-> path,
    target |-> IF kind = "modify" THEN path
               ELSE Append(Parent(path), _generate_new_name(Name(path), config.old_name, config.new_name)) ]

SeqRange(q) == { q[i] : i \in 1..Len(q) }

\* the decisions of a scan: every file to rename and every directory to
\* rename with its new path, every file to modify
DecisionSet(sr) ==
  { Decision("rename_file", p) : p \in SeqRange(sr.files_to_rename) }
  \cup { Decision("rename_directory", p) : p \in SeqRange(sr.directories_to_rename) }
  \cup { Decision("modify", p) : p \in SeqRange(sr.files_to_modify) }

\* _log_dry_run_results and the return of rename_project in a dry run
LogDryRunResults ==
  /\ pc = "report"
  /\ reported' = DecisionSet(scan_results)
  /\ pc' = "done"
  /\ result' = "True"
  /\ UNCHANGED << config, env, fs, walk, scan_results, idx, success, changed_files,
                  errors, backup_paths, tree0, ops, attempted, call >>

\* _rename_file(file_path): the path it computes, whether another file or
\* directory is already there, and "ok" or the exception it catches
_rename_file(f, locked, c, platform, file_path) ==
  LET new_path == Append(Parent(file_path),
                    _generate_new_name(Name(file_path), c.old_name, c.new_name))
  IN  [ new_path |-> new_path,
        existed  |-> new_path # file_path /\ Exists(f, new_path),
        outcome  |-> IF c.dry_run THEN "ok"
                     ELSE RenameOutcome(f, locked, platform, file_path, new_path) ]

\* one iteration of the first loop of rename_project
RenameFileStep ==
  /\ pc = "rename_files"
  /\ idx <= Len(scan_results.files_to_rename)
  /\ LET file_path == scan_results.files_to_rename[idx]
         r  == _rename_file(fs, env.locked, config, env.platform, file_path)
         op == [ op |-> "rename_file", path |-> file_path, target |-> r.new_path,
                 outcome |-> r.outcome, existed |-> r.existed ]
     IN  /\ ops' = IF config.dry_run THEN ops ELSE Append(ops, op)
         /\ attempted' = attempted \cup { Decision("rename_file", file_path) }
         /\ IF r.outcome = "ok"
            THEN /\ fs' = IF config.dry_run THEN fs ELSE Renamed(fs, file_path, r.new_path)
                 /\ env' = [ env EXCEPT !.locked =
                               IF file_path \in @ THEN (@ \ { file_path }) \cup { r.new_path }
                               ELSE @ \ { r.new_path } ]
                 /\ changed_files' = Append(changed_files, file_path)
                 /\ UNCHANGED << errors, success >>
            ELSE /\ errors' = Append(errors, op)
                 /\ success' = FALSE
                 /\ UNCHANGED << fs, env, changed_files >>
  /\ idx' = idx + 1
  /\ UNCHANGED << config, pc, walk, scan_results, backup_paths, result, tree0, reported, call >>

\* the head of the second loop: sorted(directories_to_rename, key=len,
\* reverse=True) calls len on a Path, which raises TypeError as soon as the
\* list has an element; the exception leaves rename_project
RenameDirectories ==
  /\ pc = "rename_files"
  /\ idx > Len(scan_results.files_to_rename)
  /\ IF scan_results.directories_to_rename = << >>
     THEN pc' = "modify" /\ result' = result
     ELSE pc' = "raised" /\ result' = "TypeError"
  /\ idx' = 1
  /\ UNCHANGED << config, env, fs, walk, scan_results, success, changed_files, errors,
                  backup_paths, tree0, ops, reported, attempted, call >>

\* a _modify_file_content that writes the rewritten text without adding the
\* file to changed_files
_modify_file_content_NotRecorded(f, locked, c, file_path) ==
  IF ~IsFile(f, file_path)
  THEN [ ret |-> FALSE, written |-> FALSE, changed |-> FALSE, content |-> << >>,
         error |-> IF IsDir(f, file_path) THEN "IsADirectoryError" ELSE "FileNotFoundError" ]
  ELSE LET original_content == f.files[file_path]
           modified_content == Rewrite(original_content, c.old_name, c.new_name, c.case_sensitive)
       IN  IF modified_content = original_content
           THEN [ ret |-> TRUE, written |-> FALSE, changed |-> FALSE,
                  content |-> original_content, error |-> "none" ]
           ELSE IF ~c.dry_run /\ file_path \in locked
           THEN [ ret |-> FALSE, written |-> FALSE, changed |-> FALSE,
                  content |-> original_content, error |-> "PermissionError" ]
           ELSE [ ret |-> TRUE, written |-> ~c.dry_run, changed |-> FALSE,
                  content |-> IF c.dry_run THEN original_content ELSE modified_content,
                  error |-> "none" ]

\* a _modify_file_content without the test `modified_content !=
\* original_content`: it writes the file and records it whatever the rewrite did
_modify_file_content_AlwaysWrites(f, locked, c, file_path) ==
  IF ~IsFile(f, file_path)
  THEN [ ret |-> FALSE, written |-> FALSE, changed |-> FALSE, content |-> << >>,
         error |-> IF IsDir(f, file_path) THEN "IsADirectoryError" ELSE "FileNotFoundError" ]
  ELSE IF ~c.dry_run /\ file_path \in locked
  THEN [ ret |-> FALSE, written |-> FALSE, changed |-> FALSE,
         content |-> f.files[file_path], error |-> "PermissionError" ]
  ELSE [ ret |-> TRUE, written |-> ~c.dry_run, changed |-> TRUE,
         content |-> IF c.dry_run THEN f.files[file_path]
                     ELSE Rewrite(f.files[file_path], c.old_name, c.new_name, c.case_sensitive),
         error |-> "none" ]

\* _modify_file_content(file_path) on a tree f: what it returns, the
\* exception it catches ("none" when there is none), whether it wrote the
\* file and whether it appended the path to changed_files, and the content
\* the file has afterwards
_modify_file_content(f, locked, c, file_path) ==
  IF ~IsFile(f, file_path)
  THEN [ ret |-> FALSE, written |-> FALSE, changed |-> FALSE, content |-> << >>,
         error |-> IF IsDir(f, file_path) THEN "IsADirectoryError" ELSE "FileNotFoundError" ]
  ELSE LET original_content == f.files[file_path]
           modified_content == Rewrite(original_content, c.old_name, c.new_name, c.case_sensitive)
       IN  IF modified_content = original_content
           THEN [ ret |-> TRUE, written |-> FALSE, changed |-> FALSE,
                  content |-> original_content, error |-> "none" ]
           ELSE IF ~c.dry_run /\ file_path \in locked
           THEN [ ret |-> FALSE, written |-> FALSE, changed |-> FALSE,
                  content |-> original_content, error |-> "PermissionError" ]
           ELSE [ ret |-> TRUE, written |-> ~c.dry_run, changed |-> TRUE,
                  content |-> IF c.dry_run THEN original_content ELSE modified_content,
                  error |-> "none" ]

\* one iteration of the third loop of rename_project
ModifyStep ==
  /\ pc = "modify"
  /\ idx <= Len(scan_results.files_to_modify)
  /\ LET file_path == scan_results.files_to_modify[idx]
         r  == _modify_file_content(fs, env.locked, config, file_path)
         op == [ op |-> "write", path |-> file_path, target |-> file_path,
                 outcome |-> IF r.error = "none" THEN "ok" ELSE r.error, existed |-> TRUE ]
     IN  /\ attempted' = attempted \cup { Decision("modify", file_path) }
         /\ fs' = IF r.written THEN [ fs EXCEPT !.files[file_path] = r.content ] ELSE fs
         /\ ops' = IF r.written \/ r.error = "PermissionError" THEN Append(ops, op) ELSE ops
         /\ changed_files' = IF r.changed THEN Append(changed_files, file_path) ELSE changed_files
         /\ errors' = IF r.ret THEN errors ELSE Append(errors, [ op EXCEPT !.op = "modify" ])
         /\ success' = (success /\ r.ret)
  /\ idx' = idx + 1
  /\ UNCHANGED << config, env, pc, walk, scan_results, backup_paths, result, tree0,
                  reported, call >>

\* the end of rename_project: return success
Finish ==
  /\ pc = "modify"
  /\ idx > Len(scan_results.files_to_modify)
  /\ pc' = "done"
  /\ result' = IF success THEN "True" ELSE "False"
  /\ UNCHANGED << config, env, fs, walk, scan_results, idx, success, changed_files,
                  errors, backup_paths, tree0, ops, reported, attempted, call >>

Next ==
  \/ EntryPoint
  \/ Construct
  \/ CreateBackup
  \/ ScanStep
  \/ LogDryRunResults
  \/ RenameFileStep
  \/ RenameDirectories
  \/ ModifyStep
  \/ Finish

Spec == Init /\ [][Next]_vars

(***************************************************************************)
(* Properties of a run of rename_project.                                  *)
(***************************************************************************)
OpIndices == 1..Len(ops)

Mutation(i) == ops[i].op \in { "rename_file", "rename_directory", "write" }

BackupCompletedBefore(i) ==
  \E j \in 1..(i - 1) : ops[j].op = "backup" /\ ops[j].outcome = "ok"

BackupFailed == \E j \in OpIndices : ops[j].op = "backup" /\ ops[j].outcome # "ok"

ProjectFilesUntouched ==
  \A p \in DOMAIN tree0.files : IsFile(fs, p) /\ fs.files[p] = tree0.files[p]

IsAncestor(a, d) == Len(a) < Len(d) /\ SubSeq(d, 1, Len(a)) = a

LiveRunEnded == ~config.dry_run /\ pc \in { "done", "raised" }

InvalidIdentifiers(c) ==
  c.old_name = c.new_name \/ c.old_name = << >> \/ c.new_name = << >>

\* C1: in a run with dry_run enabled (and a valid identifier pair), whatever
\* the other configuration values, the project tree at every point of the run is the tree the run
\* started with: nothing is created, renamed or written.
C1_DryRunMutatesNothing ==
  (config.dry_run /\ ~InvalidIdentifiers(config)) => fs = tree0

\* C2: in a live run with backup enabled every rename and every content
\* write comes after a create_backup that completed successfully; once
\* create_backup has failed the run has returned False and has renamed or
\* written nothing.
C2_BackupBeforeMutation ==
  (~config.dry_run /\ config.backup_enabled) =>
     /\ \A i \in OpIndices : Mutation(i) => BackupCompletedBefore(i)
     /\ BackupFailed =>
          /\ pc = "done"
          /\ result = "False"
          /\ \A i \in OpIndices : ~Mutation(i)
          /\ ProjectFilesUntouched

\* a live run with backup enabled has renamed a file
C2_Witness ==
  /\ ~config.dry_run
  /\ config.backup_enabled
  /\ \E i \in OpIndices : ops[i].op = "rename_file" /\ ops[i].outcome = "ok"

\* C3: once a live run is past its directory phase, every directory of
\* directories_to_rename has been renamed, and no directory was renamed
\* before one of its descendants.
C3_DirectoriesRenamedDeepestFirst ==
  (~config.dry_run /\ ~InvalidIdentifiers(config) /\ pc \in { "modify", "done", "raised" }) =>
     /\ \A d \in SeqRange(scan_results.directories_to_rename) :
          \E i \in OpIndices : ops[i].op = "rename_directory" /\ ops[i].path = d
     /\ \A i, j \in OpIndices :
          (i < j /\ ops[i].op = "rename_directory" /\ ops[j].op = "rename_directory")
             => ~IsAncestor(ops[i].path, ops[j].path)

\* C4: a live run in which a scheduled operation failed has recorded the
\* failure, has still attempted every scheduled operation of the three
\* phases, and has returned False instead of raising.
C4_FailureDoesNotAbort ==
  (LiveRunEnded /\ ~InvalidIdentifiers(config) /\ errors # << >>) =>
     /\ result = "False"
     /\ attempted = DecisionSet(scan_results)

\* C5: a rename whose target path is already taken by another file or
\* directory is not applied, and an error for it is in the error list.
C5_ExistingTargetNotReplaced ==
  \A i \in OpIndices :
     (ops[i].op = "rename_file" /\ ops[i].existed /\ ~InvalidIdentifiers(config)) =>
        /\ ops[i].outcome # "ok"
        /\ ops[i] \in SeqRange(errors)

\* C6: with old_name and new_name equal, or one of them empty, the
\* invocation is rejected by the entry point: no ProjectRenamer is
\* constructed and none of its operations runs.
C6_InvalidIdentifiersRejected ==
  InvalidIdentifiers(config) => pc \in { "start", "rejected" }

\* C7: the decisions a dry run reports and the operations a live run carries
\* out are both the decision set of the scan: at the end of a dry run the
\* report is that set, at the end of a live run the operations attempted are
\* that set.
C7_DryRunReportsWhatLiveRunDoes ==
  ~InvalidIdentifiers(config) =>
     /\ (config.dry_run /\ pc = "done" /\ result = "True") => reported = DecisionSet(scan_results)
     /\ LiveRunEnded => attempted = DecisionSet(scan_results)

\* C15: in a live run no phase works on a stale path: when the run ends,
\* no content modification has failed because the path of a file scheduled
\* in files_to_modify was no longer there (the file having been renamed, or
\* lying under a renamed directory).
C15_NoStalePath ==
  (~config.dry_run /\ ~InvalidIdentifiers(config) /\ pc = "done")
    => \A i \in 1..Len(errors) :
         ~(errors[i].op = "modify" /\ errors[i].outcome = "FileNotFoundError")

\* name == old, or snake_case(name) == snake_case(old), or
\* PascalCase(name) == PascalCase(old)
MatchesOld(name, old) ==
  \/ name = old
  \/ to_snake_case(name) = to_snake_case(old)
  \/ to_pascal_case(name) = to_pascal_case(old)

\* C17: a file or a directory is scheduled for rename only if its name (for
\* a file, its name or its stem) matches old; a directory whose name
\* matches none of the three forms is never put in directories_to_rename.
C17_ScheduledOnlyIfNameMatches ==
  ~InvalidIdentifiers(config)
    => /\ \A i \in 1..Len(scan_results.directories_to_rename) :
            MatchesOld(Name(scan_results.directories_to_rename[i]), config.old_name)
       /\ \A i \in 1..Len(scan_results.files_to_rename) :
            \/ MatchesOld(Name(scan_results.files_to_rename[i]), config.old_name)
            \/ MatchesOld(Stem(Name(scan_results.files_to_rename[i])), config.old_name)

\* C19: with preserve_case enabled the pattern set is built (four matchers)
\* and content rewriting goes on to replace each match by new_name cased
\* after the matched text: the construction of the ProjectRenamer does not
\* fail, so a run is never over before its scan.
C19_PreserveCasePatternsBuilt ==
  (config.preserve_case /\ ~InvalidIdentifiers(config))
    => ~(pc = "raised" /\ scan_results = EmptyScan /\ ops = << >>)

(***************************************************************************)
(* file_handlers.py: the JSON handler.  json.loads and json.dumps are      *)
(* computed character by character.  A parsed value is a record tagged by  *)
(* its Python type: str, int, lit (True, False, None, spelled as in JSON), *)
(* list (a sequence of values) and dict (a sequence of key/value members   *)
(* in insertion order).  The contents drawn hold no escape sequence, no    *)
(* sign, no fraction and no exponent.                                      *)
(***************************************************************************)
JStr(chars) == [ t |-> "str", v |-> chars ]

JInt(chars) == [ t |-> "int", v |-> chars ]

JLit(chars) == [ t |-> "lit", v |-> chars ]

JList(items) == [ t |-> "list", v |-> items ]

JDict(members) == [ t |-> "dict", v |-> members ]

K_true == << "t", "r", "u", "e" >>

K_false == << "f", "a", "l", "s", "e" >>

K_null == << "n", "u", "l", "l" >>

\* dict membership, lookup and item assignment on the members of a dict
HasKey(members, key) == \E i \in 1..Len(members) : members[i].k = key

KeyIndex(members, key) == CHOOSE i \in 1..Len(members) : members[i].k = key

GetItem(members, key) == members[KeyIndex(members, key)].val

SetItem(members, key, val) ==
  IF HasKey(members, key)
  THEN [ i \in 1..Len(members) |->
           IF i = KeyIndex(members, key) THEN [ k |-> key, val |-> val ] ELSE members[i] ]
  ELSE Append(members, [ k |-> key, val |-> val ])

PopItem(members, key) ==
  LET n == KeyIndex(members, key)
  IN  [ i \in 1..(Len(members) - 1) |-> IF i < n THEN members[i] ELSE members[i + 1] ]

\* json.decoder: WHITESPACE
JsonWhitespace == { " ", "\t", "\n", "\r" }

ControlChars == { "\t", "\n", "\r" }

RECURSIVE SkipWs(_, _)
SkipWs(s, i) ==
  IF i <= Len(s) /\ s[i] \in JsonWhitespace THEN SkipWs(s, i + 1) ELSE i

\* scanstring from i, the index after the opening quote: the index of the
\* closing quote, 0 when the string is not terminated or holds a control
\* character (strict mode)
RECURSIVE StringEnd(_, _)
StringEnd(s, i) ==
  IF i > Len(s) THEN 0
  ELSE IF s[i] = "\"" THEN i
  ELSE IF s[i] \in ControlChars THEN 0
  ELSE StringEnd(s, i + 1)

RECURSIVE DigitsEnd(_, _)
DigitsEnd(s, i) ==
  IF i <= Len(s) /\ s[i] \in Digits THEN DigitsEnd(s, i + 1) ELSE i

\* NUMBER_RE at i, integer part only: (0|[1-9]\d*)
NumberEnd(s, i) == IF s[i] = "0" THEN i + 1 ELSE DigitsEnd(s, i)

ParseFail == [ ok |-> FALSE, val |-> JLit(K_null), end |-> 0 ]

ParseOk(val, end) == [ ok |-> TRUE, val |-> val, end |-> end ]

RECURSIVE ParseValue(_, _)
RECURSIVE ParseMembers(_, _, _)
RECURSIVE ParseElements(_, _, _)

\* JSONObject from the first key: s[j] must be the opening quote of a key
ParseMembers(s, j, acc) ==
  IF j > Len(s) \/ s[j] # "\"" THEN ParseFail
  ELSE LET e == StringEnd(s, j + 1)
       IN  IF e = 0 THEN ParseFail
           ELSE LET c == SkipWs(s, e + 1)
                IN  IF c > Len(s) \/ s[c] # ":" THEN ParseFail
                    ELSE LET r == ParseValue(s, SkipWs(s, c + 1))
                         IN  IF ~r.ok THEN ParseFail
                             ELSE LET n    == SkipWs(s, r.end)
                                      acc2 == SetItem(acc, SubSeq(s, j + 1, e - 1), r.val)
                                  IN  IF n > Len(s) THEN ParseFail
                                      ELSE IF s[n] = "}" THEN ParseOk(JDict(acc2), n + 1)
                                      ELSE IF s[n] = "," THEN ParseMembers(s, SkipWs(s, n + 1), acc2)
                                      ELSE ParseFail

\* JSONArray from the first element
ParseElements(s, j, acc) ==
  LET r == ParseValue(s, j)
  IN  IF ~r.ok THEN ParseFail
      ELSE LET n    == SkipWs(s, r.end)
               acc2 == Append(acc, r.val)
           IN  IF n > Len(s) THEN ParseFail
               ELSE IF s[n] = "]" THEN ParseOk(JList(acc2), n + 1)
               ELSE IF s[n] = "," THEN ParseElements(s, SkipWs(s, n + 1), acc2)
               ELSE ParseFail

\* scan_once(s, i)
ParseValue(s, i) ==
  IF i > Len(s) THEN ParseFail
  ELSE IF s[i] = "\""
  THEN LET e == StringEnd(s, i + 1)
       IN  IF e = 0 THEN ParseFail ELSE ParseOk(JStr(SubSeq(s, i + 1, e - 1)), e + 1)
  ELSE IF s[i] = "{"
  THEN LET j == SkipWs(s, i + 1)
       IN  IF j <= Len(s) /\ s[j] = "}" THEN ParseOk(JDict(<< >>), j + 1)
           ELSE ParseMembers(s, j, << >>)
  ELSE IF s[i] = "["
  THEN LET j == SkipWs(s, i + 1)
       IN  IF j <= Len(s) /\ s[j] = "]" THEN ParseOk(JList(<< >>), j + 1)
           ELSE ParseElements(s, j, << >>)
  ELSE IF StartsAt(s, i, K_null) THEN ParseOk(JLit(K_null), i + 4)
  ELSE IF StartsAt(s, i, K_true) THEN ParseOk(JLit(K_true), i + 4)
  ELSE IF StartsAt(s, i, K_false) THEN ParseOk(JLit(K_false), i + 5)
  ELSE IF s[i] \in Digits THEN ParseOk(JInt(SubSeq(s, i, NumberEnd(s, i) - 1)), NumberEnd(s, i))
  ELSE ParseFail

\* json.loads(content): ok is FALSE where it raises JSONDecodeError
JsonLoads(s) ==
  LET r == ParseValue(s, SkipWs(s, 1))
  IN  IF r.ok /\ SkipWs(s, r.end) = Len(s) + 1 THEN r ELSE ParseFail

RECURSIVE JoinWith(_, _)
JoinWith(parts, sep) ==
  IF parts = << >> THEN << >>
  ELSE IF Len(parts) = 1 THEN parts[1]
  ELSE parts[1] \o sep \o JoinWith(Tail(parts), sep)

RECURSIVE Spaces(_)
Spaces(n) == IF n = 0 THEN << >> ELSE << " " >> \o Spaces(n - 1)

Quoted(chars) == << "\"" >> \o chars \o << "\"" >>

\* json.dumps(data, indent=2), at nesting depth level
RECURSIVE JsonDumps(_, _)
JsonDumps(data, level) ==
  LET inner == << "\n" >> \o Spaces(2 * (level + 1))
      outer == << "\n" >> \o Spaces(2 * level)
  IN  IF data.t = "str" THEN Quoted(data.v)
      ELSE IF data.t \in { "int", "lit" } THEN data.v
      ELSE IF data.v = << >> THEN (IF data.t = "dict" THEN << "{", "}" >> ELSE << "[", "]" >>)
      ELSE IF data.t = "dict"
      THEN << "{" >> \o inner
             \o JoinWith([ i \in 1..Len(data.v) |->
                             Quoted(data.v[i].k) \o << ":", " " >>
                               \o JsonDumps(data.v[i].val, level + 1) ],
                         << "," >> \o inner)
             \o outer \o << "}" >>
      ELSE << "[" >> \o inner
             \o JoinWith([ i \in 1..Len(data.v) |-> JsonDumps(data.v[i], level + 1) ],
                         << "," >> \o inner)
             \o outer \o << "]" >>

\* repr(data) of a parsed value
RECURSIVE PyRepr(_)
PyRepr(data) ==
  IF data.t = "str" THEN << "'" >> \o data.v \o << "'" >>
  ELSE IF data.t = "int" THEN data.v
  ELSE IF data.t = "lit"
  THEN (IF data.v = K_null THEN << "N", "o", "n", "e" >>
        ELSE IF data.v = K_true THEN << "T", "r", "u", "e" >>
        ELSE << "F", "a", "l", "s", "e" >>)
  ELSE IF data.t = "dict"
  THEN << "{" >>
         \o JoinWith([ i \in 1..Len(data.v) |->
                         << "'" >> \o data.v[i].k \o << "'", ":", " " >> \o PyRepr(data.v[i].val) ],
                     << ",", " " >>)
         \o << "}" >>
  ELSE << "[" >>
         \o JoinWith([ i \in 1..Len(data.v) |-> PyRepr(data.v[i]) ], << ",", " " >>)
         \o << "]" >>

\* str(data)
PyStr(data) == IF data.t = "str" THEN data.v ELSE PyRepr(data)

\* type(data).__name__
PyType(data) ==
  IF data.t = "lit" THEN (IF data.v = K_null THEN "NoneType" ELSE "bool") ELSE data.t

\* `key in data` for a str key: "yes", "no", or "TypeError" where data is
\* not iterable
In(key, data) ==
  IF data.t = "dict" THEN (IF HasKey(data.v, key) THEN "yes" ELSE "no")
  ELSE IF data.t = "list"
  THEN (IF \E i \in 1..Len(data.v) : data.v[i].t = "str" /\ data.v[i].v = key
        THEN "yes" ELSE "no")
  ELSE IF data.t = "str" THEN (IF Contains(data.v, key) THEN "yes" ELSE "no")
  ELSE "TypeError"

\* what process does: it returns an object of some type (text is the str
\* itself when the type is str, and json.dumps of the object otherwise) or
\* lets an exception reach the caller
Raise(exception) == [ outcome |-> "raise", type |-> exception, text |-> << >> ]

ReturnText(chars) == [ outcome |-> "return", type |-> "str", text |-> chars ]

ReturnObject(data) ==
  [ outcome |-> "return", type |-> PyType(data),
    text |-> IF data.t = "str" THEN data.v ELSE JsonDumps(data, 0) ]

K_name == << "n", "a", "m", "e" >>

K_description == << "d", "e", "s", "c", "r", "i", "p", "t", "i", "o", "n" >>

K_compilerOptions ==
  << "c", "o", "m", "p", "i", "l", "e", "r", "O", "p", "t", "i", "o", "n", "s" >>

K_baseUrl == << "b", "a", "s", "e", "U", "r", "l" >>

K_projects == << "p", "r", "o", "j", "e", "c", "t", "s" >>

\* _handle_package_json(data)
_handle_package_json(data, old_name, new_name) ==
  LET has_name == In(K_name, data)
  IN  IF has_name = "TypeError" \/ (has_name = "yes" /\ data.t # "dict")
      THEN Raise("TypeError")
      ELSE LET data1 == IF has_name = "yes"
                        THEN JDict(SetItem(data.v, K_name, JStr(new_name)))
                        ELSE data
           IN  IF In(K_description, data1) = "no"
               THEN ReturnText(JsonDumps(data1, 0))
               ELSE IF data1.t # "dict" THEN Raise("TypeError")
               ELSE LET d == GetItem(data1.v, K_description)
                    IN  IF d.t # "str" THEN Raise("AttributeError")
                        ELSE ReturnText(JsonDumps(
                               JDict(SetItem(data1.v, K_description,
                                             JStr(StrReplace(d.v, old_name, new_name)))), 0))

\* _handle_config_json(data)
_handle_config_json(data, old_name, new_name) ==
  LET has_opts == In(K_compilerOptions, data)
  IN  IF has_opts = "TypeError" \/ (has_opts = "yes" /\ data.t # "dict")
      THEN Raise("TypeError")
      ELSE IF has_opts = "no" THEN ReturnText(JsonDumps(data, 0))
      ELSE LET opts     == GetItem(data.v, K_compilerOptions)
               has_base == In(K_baseUrl, opts)
           IN  IF has_base = "TypeError" \/ (has_base = "yes" /\ opts.t # "dict")
               THEN Raise("TypeError")
               ELSE IF has_base = "no" THEN ReturnText(JsonDumps(data, 0))
               ELSE LET base == PyStr(GetItem(opts.v, K_baseUrl))
                    IN  IF ~Contains(base, old_name) THEN ReturnText(JsonDumps(data, 0))
                        ELSE ReturnText(JsonDumps(
                               JDict(SetItem(data.v, K_compilerOptions,
                                 JDict(SetItem(opts.v, K_baseUrl,
                                               JStr(StrReplace(base, old_name, new_name)))))), 0))

\* _handle_angular_json(data)
_handle_angular_json(data, old_name, new_name) ==
  LET has_projects == In(K_projects, data)
  IN  IF has_projects = "TypeError" \/ (has_projects = "yes" /\ data.t # "dict")
      THEN Raise("TypeError")
      ELSE IF has_projects = "no" THEN ReturnText(JsonDumps(data, 0))
      ELSE LET projects == GetItem(data.v, K_projects)
               has_old  == In(old_name, projects)
           IN  IF has_old = "TypeError" THEN Raise("TypeError")
               ELSE IF has_old = "no" THEN ReturnText(JsonDumps(data, 0))
               ELSE IF projects.t = "list" THEN Raise("TypeError")
               ELSE IF projects.t = "str" THEN Raise("AttributeError")
               ELSE ReturnText(JsonDumps(
                      JDict(SetItem(data.v, K_projects,
                        JDict(SetItem(PopItem(projects.v, old_name), new_name,
                                      GetItem(projects.v, old_name))))), 0))

\* _replace_in_json_data(data, old, new)
RECURSIVE _replace_in_json_data(_, _, _)
_replace_in_json_data(data, old, new) ==
  IF data.t = "dict"
  THEN JDict([ i \in 1..Len(data.v) |->
                 [ k |-> data.v[i].k, val |-> _replace_in_json_data(data.v[i].val, old, new) ] ])
  ELSE IF data.t = "list"
  THEN JList([ i \in 1..Len(data.v) |-> _replace_in_json_data(data.v[i], old, new) ])
  ELSE IF data.t = "str" THEN JStr(StrReplace(data.v, old, new))
  ELSE data

F_package_json == << "p", "a", "c", "k", "a", "g", "e", ".", "j", "s", "o", "n" >>

F_tsconfig_json == << "t", "s", "c", "o", "n", "f", "i", "g", ".", "j", "s", "o", "n" >>

F_jsconfig_json == << "j", "s", "c", "o", "n", "f", "i", "g", ".", "j", "s", "o", "n" >>

F_angular_json == << "a", "n", "g", "u", "l", "a", "r", ".", "j", "s", "o", "n" >>

F_data_json == << "d", "a", "t", "a", ".", "j", "s", "o", "n" >>

\* JSONFileHandler.process(file_path, content)
JSONFileHandler_process(file_path, content, old_name, new_name) ==
  LET parsed == JsonLoads(content)
  IN  IF ~parsed.ok THEN ReturnText(StrReplace(content, old_name, new_name))
      ELSE IF Name(file_path) = F_package_json
      THEN _handle_package_json(parsed.val, old_name, new_name)
      ELSE IF Name(file_path) \in { F_tsconfig_json, F_jsconfig_json }
      THEN _handle_config_json(parsed.val, old_name, new_name)
      ELSE IF Name(file_path) = F_angular_json
      THEN _handle_angular_json(parsed.val, old_name, new_name)
      ELSE ReturnObject(_replace_in_json_data(parsed.val, old_name, new_name))

(***************************************************************************)
(* Content rewriting on its own: _modify_file_content called on one file,  *)
(* once and then again, for every identifier pair, case sensitivity and    *)
(* text within the bounds.                                                 *)
(***************************************************************************)
RwAlphabet == { "a", "A", "_" }

MaxIdentLen == 2

MaxTextLen == 3

\* a second call is made on contents of at most this length
MaxContentLen == 8

Strings(alphabet, lo, hi) == UNION { [1..k -> alphabet] : k \in lo..hi }

RwFile == << N_x_h >>

InitRewrite ==
  /\ config \in [ old_name : Strings(RwAlphabet, 1, MaxIdentLen),
                  new_name : Strings(RwAlphabet, 1, MaxIdentLen),
                  backup_enabled : { FALSE }, dry_run : { FALSE },
                  case_sensitive : BOOLEAN, preserve_case : { FALSE } ]
  /\ \E text \in Strings(RwAlphabet, 0, MaxTextLen) :
       /\ fs = [ dirs |-> { }, files |-> (RwFile :> text) ]
       /\ tree0 = fs
       /\ call = [ fn |-> "_modify_file_content", n |-> 0, before |-> text,
                   first |-> text, ret |-> TRUE ]
  /\ env = [ entry |-> "api", platform |-> "posix", locked |-> { } ]
  /\ pc = "call"
  /\ walk = << >>
  /\ scan_results = EmptyScan
  /\ idx = 1
  /\ success = TRUE
  /\ changed_files = << >>
  /\ errors = << >>
  /\ backup_paths = << >>
  /\ result = "none"
  /\ ops = << >>
  /\ reported = { }
  /\ attempted = { }

\* a call of _modify_file_content on the file, the first or the second
ModifyFileContentCall ==
  /\ pc = "call"
  /\ call.n < 2
  /\ Len(fs.files[RwFile]) <= MaxContentLen
  /\ LET r  == _modify_file_content(fs, env.locked, config, RwFile)
         op == [ op |-> "write", path |-> RwFile, target |-> RwFile,
                 outcome |-> IF r.error = "none" THEN "ok" ELSE r.error, existed |-> TRUE ]
     IN  /\ fs' = IF r.written THEN [ fs EXCEPT !.files[RwFile] = r.content ] ELSE fs
         /\ ops' = IF r.written \/ r.error = "PermissionError" THEN Append(ops, op) ELSE ops
         /\ changed_files' = IF r.changed THEN Append(changed_files, RwFile) ELSE changed_files
         /\ errors' = IF r.ret THEN errors ELSE Append(errors, [ op EXCEPT !.op = "modify" ])
         /\ call' = [ call EXCEPT !.n = @ + 1,
                                  !.before = fs.files[RwFile],
                                  !.first = IF call.n = 0 THEN r.content ELSE @,
                                  !.ret = r.ret ]
  /\ UNCHANGED << config, env, pc, walk, scan_results, idx, success, backup_paths,
                  result, tree0, reported, attempted >>

NextRewrite == ModifyFileContentCall

SpecRewrite == InitRewrite /\ [][NextRewrite]_vars

\* C8: for old # new and new not containing old as a substring,
\* rewriting a text that was already rewritten leaves it as it is.
C8_RewriteIdempotent ==
  (/\ call.fn = "_modify_file_content"
   /\ call.n = 2
   /\ config.old_name # config.new_name
   /\ ~Contains(config.new_name, config.old_name))
     => fs.files[RwFile] = call.first

\* C9: when the text of a file holds no match of any variant of old,
\* _modify_file_content leaves the text exactly as it is, does not write the
\* file, does not add it to changed_files, and reports success.
C9_NoMatchNoChange ==
  (/\ call.fn = "_modify_file_content"
   /\ call.n = 1
   /\ ~ContainsTarget(call.before, config.old_name, config.case_sensitive))
     => /\ fs.files[RwFile] = call.before
        /\ ops = << >>
        /\ changed_files = << >>
        /\ errors = << >>
        /\ call.ret

\* _modify_file_content was called on a non-empty text without any match
C9_Witness ==
  /\ call.fn = "_modify_file_content"
  /\ call.n = 1
  /\ call.before # << >>
  /\ ~ContainsTarget(call.before, config.old_name, config.case_sensitive)

NoMarks(s) == [ i \in 1..Len(s) |-> FALSE ]

AllMarked(s) == [ i \in 1..Len(s) |-> TRUE ]

RECURSIVE MarkedInterleave(_, _, _, _)
MarkedInterleave(s, marks, i, repl) ==
  IF i > Len(s) THEN [ text |-> repl, marks |-> AllMarked(repl), again |-> FALSE ]
  ELSE LET r == MarkedInterleave(s, marks, i + 1, repl)
       IN  [ text  |-> repl \o << s[i] >> \o r.text,
             marks |-> AllMarked(repl) \o << marks[i] >> \o r.marks,
             again |-> FALSE ]

RECURSIVE MarkedSubFrom(_, _, _, _, _, _)
MarkedSubFrom(s, marks, i, p, ic, repl) ==
  IF i > Len(s) THEN [ text |-> << >>, marks |-> << >>, again |-> FALSE ]
  ELSE IF MatchAt(s, i, p, ic)
  THEN LET r == MarkedSubFrom(s, marks, i + Len(p), p, ic, repl)
       IN  [ text  |-> repl \o r.text,
             marks |-> AllMarked(repl) \o r.marks,
             again |-> r.again \/ \E k \in i..(i + Len(p) - 1) : marks[k] ]
  ELSE LET r == MarkedSubFrom(s, marks, i + 1, p, ic, repl)
       IN  [ text  |-> << s[i] >> \o r.text,
             marks |-> << marks[i] >> \o r.marks,
             again |-> r.again ]

MarkedSub(s, marks, p, ic, repl) ==
  IF Len(p) = 0 THEN MarkedInterleave(s, marks, 1, repl)
  ELSE MarkedSubFrom(s, marks, 1, p, ic, repl)

RECURSIVE MarkedApply(_, _, _, _, _)
MarkedApply(m, pats, k, ic, new_name) ==
  IF k > Len(pats) THEN m
  ELSE LET r == MarkedSub(m.text, m.marks, pats[k], ic, new_name)
       IN  MarkedApply([ r EXCEPT !.again = m.again \/ r.again ], pats, k + 1, ic, new_name)

MarkedRewrite(text, old_name, new_name, case_sensitive) ==
  MarkedApply([ text |-> text, marks |-> NoMarks(text), again |-> FALSE ],
              Patterns(old_name), 1, IgnoreCase(case_sensitive), new_name)

\* C16: during content rewriting, text inserted as a replacement by one
\* matcher is never matched and replaced again by a later matcher of the
\* same pattern set.
C16_ReplacementNotRematched ==
  (/\ call.fn = "_modify_file_content"
   /\ call.n = 1
   /\ config.old_name # config.new_name)
    => LET m == MarkedRewrite(call.before, config.old_name, config.new_name,
                              config.case_sensitive)
       IN  /\ m.text = fs.files[RwFile]
           /\ ~m.again

(***************************************************************************)
(* The JSON handler on its own: process called once on every path,         *)
(* identifier pair and content within the bounds.                          *)
(***************************************************************************)
JsonAlphabet == { "\"", "a", "1", "[", "]", "{", "}", ":", ",", " " }

MaxJsonLen == 3

\* {"name": "ab", "description": "the ab tool"}
D_manifest ==
  << "{", "\"", "n", "a", "m", "e", "\"", ":", " ", "\"", "a", "b", "\"",
    ",", " ", "\"", "d", "e", "s", "c", "r", "i", "p", "t", "i", "o", "n",
    "\"", ":", " ", "\"", "t", "h", "e", " ", "a", "b", " ", "t", "o", "o",
    "l", "\"", "}" >>

\* {"name": "ab"
D_truncated ==
  << "{", "\"", "n", "a", "m", "e", "\"", ":", " ", "\"", "a", "b", "\"" >>

\* "name"
D_name_string ==
  << "\"", "n", "a", "m", "e", "\"" >>

\* {"description": 1}
D_description_number ==
  << "{", "\"", "d", "e", "s", "c", "r", "i", "p", "t", "i", "o", "n", "\"",
    ":", " ", "1", "}" >>

\* {"compilerOptions": {"baseUrl": "./ab"}}
D_options ==
  << "{", "\"", "c", "o", "m", "p", "i", "l", "e", "r", "O", "p", "t", "i",
    "o", "n", "s", "\"", ":", " ", "{", "\"", "b", "a", "s", "e", "U", "r",
    "l", "\"", ":", " ", "\"", ".", "/", "a", "b", "\"", "}", "}" >>

\* {"compilerOptions": 1}
D_options_number ==
  << "{", "\"", "c", "o", "m", "p", "i", "l", "e", "r", "O", "p", "t", "i",
    "o", "n", "s", "\"", ":", " ", "1", "}" >>

\* {"projects": {"ab": 1}}
D_projects ==
  << "{", "\"", "p", "r", "o", "j", "e", "c", "t", "s", "\"", ":", " ", "{",
    "\"", "a", "b", "\"", ":", " ", "1", "}", "}" >>

\* {"projects": ["ab"]}
D_projects_list ==
  << "{", "\"", "p", "r", "o", "j", "e", "c", "t", "s", "\"", ":", " ", "[",
    "\"", "a", "b", "\"", "]", "}" >>

\* {"k": ["ab", {"ab": "ab"}], "n": null}
D_nested ==
  << "{", "\"", "k", "\"", ":", " ", "[", "\"", "a", "b", "\"", ",", " ",
    "{", "\"", "a", "b", "\"", ":", " ", "\"", "a", "b", "\"", "}", "]",
    ",", " ", "\"", "n", "\"", ":", " ", "n", "u", "l", "l", "}" >>

JsonDocuments ==
  { D_manifest, D_truncated, D_name_string, D_description_number,
    D_options, D_options_number, D_projects, D_projects_list, D_nested }

JsonPaths ==
  { << F_package_json >>, << F_tsconfig_json >>, << F_jsconfig_json >>,
    << F_angular_json >>, << F_data_json >> }

NoResult == [ outcome |-> "none", type |-> "none", text |-> << >> ]

InitHandlers ==
  /\ call \in [ fn : { "JSONFileHandler.process" },
                file_path : JsonPaths,
                content : Strings(JsonAlphabet, 0, MaxJsonLen) \cup JsonDocuments,
                old_name : { << "a" >>, N_ab },
                new_name : { << "b" >> },
                done : { FALSE },
                result : { NoResult } ]
  /\ config = [ old_name |-> call.old_name, new_name |-> call.new_name,
                backup_enabled |-> FALSE, dry_run |-> FALSE,
                case_sensitive |-> TRUE, preserve_case |-> FALSE ]
  /\ env = [ entry |-> "api", platform |-> "posix", locked |-> { } ]
  /\ fs = [ dirs |-> { }, files |-> (call.file_path :> call.content) ]
  /\ tree0 = fs
  /\ pc = "call"
  /\ walk = << >>
  /\ scan_results = EmptyScan
  /\ idx = 1
  /\ success = TRUE
  /\ changed_files = << >>
  /\ errors = << >>
  /\ backup_paths = << >>
  /\ result = "none"
  /\ ops = << >>
  /\ reported = { }
  /\ attempted = { }

\* JSONFileHandler(old_name, new_name).process(file_path, content)
JSONHandlerProcess ==
  /\ pc = "call"
  /\ call.fn = "JSONFileHandler.process"
  /\ ~call.done
  /\ call' = [ call EXCEPT
                 !.done = TRUE,
                 !.result = JSONFileHandler_process(call.file_path, call.content,
                                                    call.old_name, call.new_name) ]
  /\ UNCHANGED << config, env, fs, pc, walk, scan_results, idx, success, changed_files,
                  errors, backup_paths, result, tree0, ops, reported, attempted >>

NextHandlers == JSONHandlerProcess

SpecHandlers == InitHandlers /\ [][NextHandlers]_vars

\* C10: for every path and every content, process returns text and lets no
\* error reach the caller; when the content cannot be parsed, what it
\* returns is the raw content with every literal occurrence of old replaced
\* by new.
C10_HandlerReturnsTextAndNeverFails ==
  (call.fn = "JSONFileHandler.process" /\ call.done)
    => /\ call.result.outcome = "return"
       /\ call.result.type = "str"
       /\ ~JsonLoads(call.content).ok
            => call.result.text = StrReplace(call.content, call.old_name, call.new_name)

\* the keys of a dict, in order
Keys(members) == [ i \in 1..Len(members) |-> members[i].k ]

\* C14: for a file named package.json holding a JSON object, process
\* returns serialized JSON with the keys of the input in the order of the
\* input, in which the name field holds new, every occurrence of old in the
\* description field is replaced by new, and every other field is as in the
\* input.
C14_PackageJsonRewritten ==
  (/\ call.fn = "JSONFileHandler.process"
   /\ call.done
   /\ Name(call.file_path) = F_package_json
   /\ JsonLoads(call.content).ok
   /\ JsonLoads(call.content).val.t = "dict")
    => LET input  == JsonLoads(call.content).val.v
           output == JsonLoads(call.result.text)
       IN  /\ call.result.outcome = "return"
           /\ call.result.type = "str"
           /\ output.ok
           /\ output.val.t = "dict"
           /\ Keys(output.val.v) = Keys(input)
           /\ \A i \in 1..Len(input) :
                JsonDumps(output.val.v[i].val, 0) =
                  IF input[i].k = K_name THEN Quoted(call.new_name)
                  ELSE IF input[i].k = K_description /\ input[i].val.t = "str"
                  THEN Quoted(StrReplace(input[i].val.v, call.old_name, call.new_name))
                  ELSE JsonDumps(input[i].val, 0)

\* the file names process treats as manifests
ManifestNames == { F_package_json, F_tsconfig_json, F_jsconfig_json, F_angular_json }

\* C22: for a parseable JSON file that is not a recognized manifest, process
\* returns serialized JSON text; parsed again, it is the input with each
\* occurrence of old replaced by new in every string leaf, and with the
\* keys, the key order and all the other values of the input.
C22_GenericJsonReserialized ==
  (/\ call.fn = "JSONFileHandler.process"
   /\ call.done
   /\ Name(call.file_path) \notin ManifestNames
   /\ JsonLoads(call.content).ok)
    => /\ call.result.outcome = "return"
       /\ call.result.type = "str"
       /\ JsonLoads(call.result.text).ok
       /\ JsonDumps(JsonLoads(call.result.text).val, 0) =
            JsonDumps(_replace_in_json_data(JsonLoads(call.content).val,
                                            call.old_name, call.new_name), 0)

(***************************************************************************)
(* FileHandlerRegistry on its own: process_file called once.  The paths    *)
(* drawn are those of JSON files and of files no handler accepts.          *)
(***************************************************************************)
E_py == << ".", "p", "y" >>

E_js == << ".", "j", "s" >>

E_jsx == << ".", "j", "s", "x" >>

E_ts == << ".", "t", "s" >>

E_tsx == << ".", "t", "s", "x" >>

E_json == << ".", "j", "s", "o", "n" >>

E_yaml == << ".", "y", "a", "m", "l" >>

E_yml == << ".", "y", "m", "l" >>

E_xml == << ".", "x", "m", "l" >>

E_md == << ".", "m", "d" >>

E_rst == << ".", "r", "s", "t" >>

E_adoc == << ".", "a", "d", "o", "c" >>

\* FileHandlerRegistry.handlers, in registration order
Handlers ==
  << "PythonFileHandler", "JavaScriptFileHandler", "JSONFileHandler",
     "YAMLFileHandler", "XMLFileHandler", "MarkdownFileHandler" >>

\* handler.can_handle(file_path)
can_handle(handler, file_path) ==
  LET suffix == Lower(Suffix(Name(file_path)))
  IN  CASE handler = "PythonFileHandler"     -> suffix = E_py
        [] handler = "JavaScriptFileHandler" -> suffix \in { E_js, E_jsx, E_ts, E_tsx }
        [] handler = "JSONFileHandler"       -> suffix = E_json
        [] handler = "YAMLFileHandler"       -> suffix \in { E_yaml, E_yml }
        [] handler = "XMLFileHandler"        -> suffix = E_xml
        [] handler = "MarkdownFileHandler"   -> suffix \in { E_md, E_rst, E_adoc }

\* FileHandlerRegistry.get_handler(file_path): the first handler that
\* accepts the path, "None" when there is none
get_handler(file_path) ==
  IF \E i \in 1..Len(Handlers) : can_handle(Handlers[i], file_path)
  THEN Handlers[CHOOSE i \in 1..Len(Handlers) :
                  /\ can_handle(Handlers[i], file_path)
                  /\ \A j \in 1..(i - 1) : ~can_handle(Handlers[j], file_path)]
  ELSE "None"

\* FileHandlerRegistry.process_file(file_path, content).  The registry
\* keeps the handlers only: it has no attribute old_name, so the last line
\* raises AttributeError.
process_file(file_path, content, old_name, new_name) ==
  LET handler == get_handler(file_path)
  IN  CASE handler = "JSONFileHandler" ->
             JSONFileHandler_process(file_path, content, old_name, new_name)
        [] handler = "None" -> Raise("AttributeError")

F_notes_txt == << "n", "o", "t", "e", "s", ".", "t", "x", "t" >>

F_Makefile == << "M", "a", "k", "e", "f", "i", "l", "e" >>

F_x_JSON == << "x", ".", "J", "S", "O", "N" >>

RegistryPaths ==
  { << F_package_json >>, << F_data_json >>, << F_x_JSON >>, << F_notes_txt >>,
    << F_Makefile >>, << N_x_h >> }

\* the variables of a run, while a single function is called on its own
NoRun ==
  /\ env = [ entry |-> "api", platform |-> "posix", locked |-> { } ]
  /\ pc = "call"
  /\ walk = << >>
  /\ scan_results = EmptyScan
  /\ idx = 1
  /\ success = TRUE
  /\ changed_files = << >>
  /\ errors = << >>
  /\ backup_paths = << >>
  /\ result = "none"
  /\ ops = << >>
  /\ reported = { }
  /\ attempted = { }

InitRegistry ==
  /\ call \in [ fn : { "FileHandlerRegistry.process_file" },
                file_path : RegistryPaths,
                content : Strings(JsonAlphabet, 0, MaxJsonLen - 1) \cup JsonDocuments,
                old_name : { << "a" >>, N_ab },
                new_name : { << "b" >> },
                done : { FALSE },
                result : { NoResult } ]
  /\ config = [ old_name |-> call.old_name, new_name |-> call.new_name,
                backup_enabled |-> FALSE, dry_run |-> FALSE,
                case_sensitive |-> TRUE, preserve_case |-> FALSE ]
  /\ fs = [ dirs |-> { }, files |-> (call.file_path :> call.content) ]
  /\ tree0 = fs
  /\ NoRun

\* FileHandlerRegistry(old_name, new_name).process_file(file_path, content)
RegistryProcessFile ==
  /\ pc = "call"
  /\ call.fn = "FileHandlerRegistry.process_file"
  /\ ~call.done
  /\ call' = [ call EXCEPT
                 !.done = TRUE,
                 !.result = process_file(call.file_path, call.content,
                                         call.old_name, call.new_name) ]
  /\ UNCHANGED << config, env, fs, pc, walk, scan_results, idx, success, changed_files,
                  errors, backup_paths, result, tree0, ops, reported, attempted >>

NextRegistry == RegistryProcessFile

SpecRegistry == InitRegistry /\ [][NextRegistry]_vars

\* C11: process_file delegates to the first handler in registration order
\* that accepts the path, and when no handler accepts the path it returns
\* the content with every occurrence of old_name replaced by new_name; it
\* never fails because a handler is missing.
C11_RegistryAlwaysTransforms ==
  (call.fn = "FileHandlerRegistry.process_file" /\ call.done)
    => IF get_handler(call.file_path) = "None"
       THEN call.result = ReturnText(StrReplace(call.content, call.old_name, call.new_name))
       ELSE call.result = JSONFileHandler_process(call.file_path, call.content,
                                                  call.old_name, call.new_name)

(***************************************************************************)
(* Name resolution on its own: _generate_new_name called once on every     *)
(* name and identifier pair within the bounds, and on the names of the     *)
(* documented example.                                                     *)
(***************************************************************************)
NameAlphabet == { "a", "A", "_" }

MaxNameLen == 3

N_MyOldProject ==
  << "M", "y", "O", "l", "d", "P", "r", "o", "j", "e", "c", "t" >>

N_MyNewProject ==
  << "M", "y", "N", "e", "w", "P", "r", "o", "j", "e", "c", "t" >>

N_my_old_project ==
  << "m", "y", "_", "o", "l", "d", "_", "p", "r", "o", "j", "e", "c", "t" >>

N_my_new_project ==
  << "m", "y", "_", "n", "e", "w", "_", "p", "r", "o", "j", "e", "c", "t" >>

\* (original_name, old_name, new_name)
NameCalls ==
  (Strings(NameAlphabet, 1, MaxNameLen) \X Strings(NameAlphabet, 1, MaxIdentLen)
     \X Strings(NameAlphabet, 1, MaxIdentLen))
  \cup ({ N_my_old_project, N_MyOldProject, Lower(N_MyOldProject), Upper(N_MyOldProject) }
          \X { N_MyOldProject } \X { N_MyNewProject })

InitNames ==
  /\ \E a \in NameCalls :
       /\ call = [ fn |-> "_generate_new_name", original_name |-> a[1],
                   done |-> FALSE, result |-> << >> ]
       /\ config = [ old_name |-> a[2], new_name |-> a[3],
                     backup_enabled |-> FALSE, dry_run |-> FALSE,
                     case_sensitive |-> FALSE, preserve_case |-> FALSE ]
  /\ fs = [ dirs |-> { }, files |-> << >> ]
  /\ tree0 = fs
  /\ NoRun

\* ProjectRenamer(config)._generate_new_name(original_name)
GenerateNewName ==
  /\ pc = "call"
  /\ call.fn = "_generate_new_name"
  /\ ~call.done
  /\ call' = [ call EXCEPT
                 !.done = TRUE,
                 !.result = _generate_new_name(call.original_name, config.old_name,
                                               config.new_name) ]
  /\ UNCHANGED << config, env, fs, pc, walk, scan_results, idx, success, changed_files,
                  errors, backup_paths, result, tree0, ops, reported, attempted >>

NextNames == GenerateNewName

SpecNames == InitNames /\ [][NextNames]_vars

\* the name and old are the same letters, in a different case
DiffersOnlyByCase(name, old) == name # old /\ Lower(name) = Lower(old)

\* C12: name resolution follows a fixed precedence: exact match (new), then
\* case-folded match (new in some letter case), then snake_case match
\* (snake_case of new), then PascalCase match (PascalCase of new), then new;
\* my_old_project with old = MyOldProject and new = MyNewProject resolves
\* to my_new_project.
C12_NameResolutionPrecedence ==
  (call.fn = "_generate_new_name" /\ call.done)
    => LET name == call.original_name
           old  == config.old_name
           new  == config.new_name
       IN  /\ IF name = old THEN call.result = new
              ELSE IF DiffersOnlyByCase(name, old) THEN Lower(call.result) = Lower(new)
              ELSE IF to_snake_case(name) = to_snake_case(old)
              THEN call.result = to_snake_case(new)
              ELSE IF to_pascal_case(name) = to_pascal_case(old)
              THEN call.result = to_pascal_case(new)
              ELSE call.result = new
           /\ (name = N_my_old_project /\ old = N_MyOldProject /\ new = N_MyNewProject)
                => call.result = N_my_new_project

\* the documented example was resolved
C12_Witness ==
  /\ call.fn = "_generate_new_name"
  /\ call.done
  /\ call.original_name = N_my_old_project
  /\ config.old_name = N_MyOldProject
  /\ config.new_name = N_MyNewProject
  /\ call.result = N_my_new_project

\* C20: when a name differs from old only by letter case, _generate_new_name
\* returns new folded to the case of that name: new lower-cased for an
\* all-lowercase name, new upper-cased for an all-uppercase name, new
\* title-cased for a title-cased name.
C20_NewFoldedToCaseOfName ==
  (/\ call.fn = "_generate_new_name"
   /\ call.done
   /\ config.old_name # config.new_name
   /\ DiffersOnlyByCase(call.original_name, config.old_name))
    => IF IsLowerStr(call.original_name) THEN call.result = Lower(config.new_name)
       ELSE IF IsUpperStr(call.original_name) THEN call.result = Upper(config.new_name)
       ELSE IF IsTitleStr(call.original_name) THEN call.result = Title(config.new_name)
       ELSE TRUE

(***************************************************************************)
(* The case converter on its own: to_pascal_case, to_kebab_case and        *)
(* to_pascal_case applied in turn to an identifier made of alphanumeric    *)
(* words joined by '-', '_' or a space.                                    *)
(***************************************************************************)
WordAlphabet == { "a", "B", "1", "-", "_", " " }

MaxWordsLen == 4

\* non-empty alphanumeric words, one separator between two words
IsIdentifierOfWords(s) ==
  /\ s # << >>
  /\ ~IsSeparator(s[1])
  /\ ~IsSeparator(s[Len(s)])
  /\ \A i \in 1..(Len(s) - 1) : ~(IsSeparator(s[i]) /\ IsSeparator(s[i + 1]))

RoundTrip == << "pascal_case", "kebab_case", "pascal_case" >>

\* utils.convert_case(text, case_style), the same expressions as
\* ProjectRenamer._to_pascal_case and _to_kebab_case
convert_case(text, case_style) ==
  CASE case_style = "pascal_case" -> to_pascal_case(text)
    [] case_style = "kebab_case"  -> to_kebab_case(text)
    [] case_style = "snake_case"  -> to_snake_case(text)

InitCase ==
  /\ \E s \in { t \in Strings(WordAlphabet, 1, MaxWordsLen) : IsIdentifierOfWords(t) } :
       call = [ fn |-> "convert_case", s |-> s, step |-> 0, value |-> s, pascal |-> s ]
  /\ config = [ old_name |-> call.s, new_name |-> call.s,
                backup_enabled |-> FALSE, dry_run |-> FALSE,
                case_sensitive |-> FALSE, preserve_case |-> FALSE ]
  /\ fs = [ dirs |-> { }, files |-> << >> ]
  /\ tree0 = fs
  /\ NoRun

\* the next conversion of the round trip, applied to the value so far
ConvertCase ==
  /\ pc = "call"
  /\ call.fn = "convert_case"
  /\ call.step < Len(RoundTrip)
  /\ LET v == convert_case(call.value, RoundTrip[call.step + 1])
     IN  call' = [ call EXCEPT !.step = @ + 1,
                               !.value = v,
                               !.pascal = IF call.step = 0 THEN v ELSE @ ]
  /\ UNCHANGED << config, env, fs, pc, walk, scan_results, idx, success, changed_files,
                  errors, backup_paths, result, tree0, ops, reported, attempted >>

NextCase == ConvertCase

SpecCase == InitCase /\ [][NextCase]_vars

\* C13: for every identifier s made of alphanumeric words joined by '-',
\* '_' or spaces, to_pascal_case(to_kebab_case(to_pascal_case(s))) equals
\* to_pascal_case(s).
C13_PascalKebabRoundTrip ==
  (call.fn = "convert_case" /\ call.step = Len(RoundTrip)) => call.value = call.pascal

(***************************************************************************)
(* utils.preserve_case on its own, called once on every original and       *)
(* replacement within the bounds.                                          *)
(***************************************************************************)
CaseAlphabet == { "a", "B", "1" }

MaxCaseLen == 3

\* the loop of the mixed-case branch from original[i] on; rep_index is the
\* number of characters of the replacement used so far
RECURSIVE PreserveFrom(_, _, _, _)
PreserveFrom(original, replacement, i, rep_index) ==
  IF i > Len(original) THEN SubSeq(replacement, rep_index + 1, Len(replacement))
  ELSE IF rep_index >= Len(replacement)
  THEN << original[i] >> \o PreserveFrom(original, replacement, i + 1, rep_index)
  ELSE << IF IsUpperChar(original[i]) THEN UpperChar(replacement[rep_index + 1])
          ELSE IF IsLowerChar(original[i]) THEN LowerChar(replacement[rep_index + 1])
          ELSE replacement[rep_index + 1] >>
         \o PreserveFrom(original, replacement, i + 1, rep_index + 1)

\* utils.preserve_case(original, replacement)
preserve_case(original, replacement) ==
  IF IsUpperStr(original) THEN Upper(replacement)
  ELSE IF IsLowerStr(original) THEN Lower(replacement)
  ELSE IF IsTitleStr(original) THEN Title(replacement)
  ELSE PreserveFrom(original, replacement, 1, 0)

InitPreserve ==
  /\ call \in [ fn : { "preserve_case" },
                original : Strings(CaseAlphabet, 0, MaxCaseLen),
                replacement : Strings(CaseAlphabet, 0, MaxCaseLen),
                done : { FALSE },
                result : { << >> } ]
  /\ config = [ old_name |-> call.original, new_name |-> call.replacement,
                backup_enabled |-> FALSE, dry_run |-> FALSE,
                case_sensitive |-> FALSE, preserve_case |-> TRUE ]
  /\ fs = [ dirs |-> { }, files |-> << >> ]
  /\ tree0 = fs
  /\ NoRun

\* preserve_case(original, replacement)
PreserveCase ==
  /\ pc = "call"
  /\ call.fn = "preserve_case"
  /\ ~call.done
  /\ call' = [ call EXCEPT !.done = TRUE,
                           !.result = preserve_case(call.original, call.replacement) ]
  /\ UNCHANGED << config, env, fs, pc, walk, scan_results, idx, success, changed_files,
                  errors, backup_paths, result, tree0, ops, reported, attempted >>

NextPreserve == PreserveCase

SpecPreserve == InitPreserve /\ [][NextPreserve]_vars

\* letters of both cases, and neither all-uppercase, nor all-lowercase, nor
\* title-cased
IsMixedCase(s) ==
  /\ \E i \in 1..Len(s) : IsUpperChar(s[i])
  /\ \E i \in 1..Len(s) : IsLowerChar(s[i])
  /\ ~IsUpperStr(s) /\ ~IsLowerStr(s) /\ ~IsTitleStr(s)

\* C21: with a mixed-case original, preserve_case copies the case position
\* by position: the result has exactly len(replacement) characters,
\* character i is replacement[i] with the case of original[i] while i is
\* within the original and replacement[i] unchanged beyond it; the trailing
\* characters of an original longer than the replacement are dropped.
C21_CaseCopiedPositionByPosition ==
  (call.fn = "preserve_case" /\ call.done /\ IsMixedCase(call.original))
    => /\ Len(call.result) = Len(call.replacement)
       /\ \A i \in 1..Len(call.replacement) :
            call.result[i] =
              IF i > Len(call.original) THEN call.replacement[i]
              ELSE IF IsUpperChar(call.original[i]) THEN UpperChar(call.replacement[i])
              ELSE IF IsLowerChar(call.original[i]) THEN LowerChar(call.replacement[i])
              ELSE call.replacement[i]

(***************************************************************************)
(* YAMLFileHandler on its own: one call of process per behaviour.         *)
(* Documents are written in YAML's flow style, which for the documents    *)
(* enumerated here is JSON text, optionally after one comment line.       *)
(***************************************************************************)

K_services == << "s", "e", "r", "v", "i", "c", "e", "s" >>

K_metadata == << "m", "e", "t", "a", "d", "a", "t", "a" >>

K_docker_compose ==
  << "d", "o", "c", "k", "e", "r", "-", "c", "o", "m", "p", "o", "s", "e" >>

K_kubernetes == << "k", "u", "b", "e", "r", "n", "e", "t", "e", "s" >>

K_k8s == << "k", "8", "s" >>

\* a compose file whose service is named ab
Y_compose ==
  << "{", "\"", "s", "e", "r", "v", "i", "c", "e", "s", "\"", ":", " ", "{",
  "\"", "a", "b", "\"", ":", " ", "{", "\"", "i", "m", "a", "g", "e", "\"",
  ":", " ", "\"", "a", "b", "\"", "}", "}", "}" >>

\* a compose file with services a and b
Y_compose_a ==
  << "{", "\"", "s", "e", "r", "v", "i", "c", "e", "s", "\"", ":", " ", "{",
  "\"", "a", "\"", ":", " ", "1", ",", " ", "\"", "b", "\"", ":", " ", "2",
  "}", "}" >>

\* a Kubernetes object named ab
Y_k8s ==
  << "{", "\"", "k", "i", "n", "d", "\"", ":", " ", "\"", "P", "o", "d",
  "\"", ",", " ", "\"", "m", "e", "t", "a", "d", "a", "t", "a", "\"", ":",
  " ", "{", "\"", "n", "a", "m", "e", "\"", ":", " ", "\"", "a", "b", "\"",
  "}", "}" >>

\* a Kubernetes object named a, labelled a
Y_k8s_a ==
  << "{", "\"", "m", "e", "t", "a", "d", "a", "t", "a", "\"", ":", " ", "{",
  "\"", "n", "a", "m", "e", "\"", ":", " ", "\"", "a", "\"", ",", " ", "\"",
  "l", "a", "b", "e", "l", "s", "\"", ":", " ", "{", "\"", "a", "p", "p",
  "\"", ":", " ", "\"", "a", "\"", "}", "}", "}" >>

\* a document that is neither
Y_plain ==
  << "{", "\"", "k", "\"", ":", " ", "[", "\"", "a", "b", "\"", ",", " ",
  "{", "\"", "a", "b", "\"", ":", " ", "\"", "a", "\"", "}", "]", "}" >>

\* a document that is one string
Y_scalar ==
  << "\"", "a", "b", "\"" >>

\* services given as a list
Y_services_list ==
  << "{", "\"", "s", "e", "r", "v", "i", "c", "e", "s", "\"", ":", " ", "[",
  "\"", "a", "b", "\"", ",", " ", "\"", "a", "\"", "]", "}" >>

\* metadata given as a string
Y_metadata_string ==
  << "{", "\"", "m", "e", "t", "a", "d", "a", "t", "a", "\"", ":", " ",
  "\"", "n", "a", "m", "e", "\"", "}" >>

\* the null document
Y_null ==
  << "n", "u", "l", "l" >>

\* a flow mapping that is never closed
Y_broken ==
  << "{", "\"", "s", "e", "r", "v", "i", "c", "e", "s", "\"", ":", " " >>

YamlBodies ==
  { Y_compose,
    Y_compose_a,
    Y_k8s,
    Y_k8s_a,
    Y_plain,
    Y_scalar,
    Y_services_list,
    Y_metadata_string,
    Y_null,
    Y_broken }

\* no comment line
H_none ==
  << >>

\* a comment line naming docker-compose
H_compose ==
  << "#", " ", "d", "o", "c", "k", "e", "r", "-", "c", "o", "m", "p", "o",
  "s", "e", "\n" >>

\* a comment line naming k8s
H_k8s ==
  << "#", " ", "k", "8", "s", "\n" >>

\* a comment line naming Kubernetes
H_kubernetes ==
  << "#", " ", "K", "u", "b", "e", "r", "n", "e", "t", "e", "s", "\n" >>

YamlHeads == { H_none, H_compose, H_k8s, H_kubernetes }

YamlDocuments == { h \o b : h \in YamlHeads, b \in YamlBodies }

F_docker_compose_yml ==
  << "d", "o", "c", "k", "e", "r", "-", "c", "o", "m", "p", "o", "s", "e", ".", "y", "m",
     "l" >>

F_x_yaml == << "x", ".", "y", "a", "m", "l" >>

YamlPaths == { << F_docker_compose_yml >>, << F_x_yaml >> }

\* the text after the comment line a document starts with
RECURSIVE SkipComment(_)
SkipComment(content) ==
  IF content = << >> \/ Head(content) # "#" THEN content
  ELSE LET ends == { i \in 1..Len(content) : content[i] = "\n" }
       IN  IF ends = { } THEN << >>
           ELSE LET e == CHOOSE i \in ends : \A j \in ends : i <= j
                IN  SkipComment(SubSeq(content, e + 1, Len(content)))

\* yaml.safe_load(content) for flow-style documents: .ok is FALSE where
\* the library raises yaml.YAMLError
yaml_safe_load(content) == JsonLoads(SkipComment(content))

\* what process does: it returns the text yaml.dump writes for a document
\* (held as that document: data), or the replaced text of the fallback
\* (text), or lets an exception reach the caller
YamlDump(data) ==
  [ outcome |-> "return", type |-> "str", form |-> "yaml.dump", data |-> data, text |-> << >> ]

YamlText(chars) ==
  [ outcome |-> "return", type |-> "str", form |-> "text", data |-> JStr(chars),
    text |-> chars ]

YamlRaise(exception) ==
  [ outcome |-> "raise", type |-> exception, form |-> "none", data |-> JLit(K_null),
    text |-> << >> ]

\* _handle_docker_compose(data)
_handle_docker_compose(data, old_name, new_name) ==
  LET has_services == In(K_services, data)
  IN  IF has_services = "TypeError" \/ (has_services = "yes" /\ data.t # "dict")
      THEN YamlRaise("TypeError")
      ELSE IF has_services = "no" THEN YamlDump(data)
      ELSE LET services == GetItem(data.v, K_services)
               has_old  == In(old_name, services)
           IN  IF has_old = "TypeError" THEN YamlRaise("TypeError")
               ELSE IF has_old = "no" THEN YamlDump(data)
               ELSE IF services.t = "list" THEN YamlRaise("TypeError")
               ELSE IF services.t = "str" THEN YamlRaise("AttributeError")
               ELSE YamlDump(
                      JDict(SetItem(data.v, K_services,
                        JDict(SetItem(PopItem(services.v, old_name), new_name,
                                      GetItem(services.v, old_name))))))

\* _handle_k8s_yaml(data)
_handle_k8s_yaml(data, old_name, new_name) ==
  LET has_metadata == In(K_metadata, data)
  IN  IF has_metadata = "TypeError" \/ (has_metadata = "yes" /\ data.t # "dict")
      THEN YamlRaise("TypeError")
      ELSE IF has_metadata = "no" THEN YamlDump(data)
      ELSE LET metadata == GetItem(data.v, K_metadata)
               has_name == In(K_name, metadata)
           IN  IF has_name = "TypeError" \/ (has_name = "yes" /\ metadata.t # "dict")
               THEN YamlRaise("TypeError")
               ELSE IF has_name = "no" THEN YamlDump(data)
               ELSE IF GetItem(metadata.v, K_name) # JStr(old_name) THEN YamlDump(data)
               ELSE YamlDump(
                      JDict(SetItem(data.v, K_metadata,
                        JDict(SetItem(metadata.v, K_name, JStr(new_name))))))

\* _replace_in_yaml_data(data, old, new)
RECURSIVE _replace_in_yaml_data(_, _, _)
_replace_in_yaml_data(data, old, new) ==
  IF data.t = "dict"
  THEN JDict([ i \in 1..Len(data.v) |->
                 [ k |-> data.v[i].k, val |-> _replace_in_yaml_data(data.v[i].val, old, new) ] ])
  ELSE IF data.t = "list"
  THEN JList([ i \in 1..Len(data.v) |-> _replace_in_yaml_data(data.v[i], old, new) ])
  ELSE IF data.t = "str" THEN JStr(StrReplace(data.v, old, new))
  ELSE data

\* YAMLFileHandler(old_name, new_name).process(file_path, content)
YAMLFileHandler_process(file_path, content, old_name, new_name) ==
  LET loaded == yaml_safe_load(content)
  IN  IF ~loaded.ok THEN YamlText(StrReplace(content, old_name, new_name))
      ELSE IF Contains(Lower(content), K_docker_compose)
      THEN _handle_docker_compose(loaded.val, old_name, new_name)
      ELSE IF Contains(Lower(content), K_kubernetes) \/ Contains(Lower(content), K_k8s)
      THEN _handle_k8s_yaml(loaded.val, old_name, new_name)
      ELSE YamlDump(_replace_in_yaml_data(loaded.val, old_name, new_name))

InitYaml ==
  /\ call \in [ fn : { "YAMLFileHandler.process" },
                file_path : YamlPaths,
                content : YamlDocuments,
                old_name : { << "a" >>, N_ab },
                new_name : { << "b" >> },
                done : { FALSE },
                result : { YamlRaise("none") } ]
  /\ config = [ old_name |-> call.old_name, new_name |-> call.new_name,
                backup_enabled |-> FALSE, dry_run |-> FALSE,
                case_sensitive |-> TRUE, preserve_case |-> FALSE ]
  /\ fs = [ dirs |-> { }, files |-> (call.file_path :> call.content) ]
  /\ tree0 = fs
  /\ NoRun

YAMLHandlerProcess ==
  /\ pc = "call"
  /\ call.fn = "YAMLFileHandler.process"
  /\ ~call.done
  /\ call' = [ call EXCEPT
                 !.done = TRUE,
                 !.result = YAMLFileHandler_process(call.file_path, call.content,
                                                    call.old_name, call.new_name) ]
  /\ UNCHANGED << config, env, fs, pc, walk, scan_results, idx, success, changed_files,
                  errors, backup_paths, result, tree0, ops, reported, attempted >>

NextYaml == YAMLHandlerProcess

SpecYaml == InitYaml /\ [][NextYaml]_vars

\* a document with a top-level services mapping that has key as one of its keys
ComposeLike(data, key) ==
  /\ data.t = "dict"
  /\ HasKey(data.v, K_services)
  /\ GetItem(data.v, K_services).t = "dict"
  /\ HasKey(GetItem(data.v, K_services).v, key)

\* a document whose metadata.name is the string name
KubernetesStyle(data, name) ==
  /\ data.t = "dict"
  /\ HasKey(data.v, K_metadata)
  /\ GetItem(data.v, K_metadata).t = "dict"
  /\ HasKey(GetItem(data.v, K_metadata).v, K_name)
  /\ GetItem(GetItem(data.v, K_metadata).v, K_name) = JStr(name)

\* C23: for a parseable YAML document, process returns the text of a
\* document in which: the key old of a top-level services mapping is
\* renamed to new with its value kept (compose-like document); else
\* metadata.name, where it equals old, is new (Kubernetes-style document);
\* else every string leaf has old replaced by new (every other document).
C23_YamlRewrittenByShape ==
  (/\ call.fn = "YAMLFileHandler.process"
   /\ call.done
   /\ yaml_safe_load(call.content).ok)
    => LET data == yaml_safe_load(call.content).val
           out  == call.result.data
       IN  /\ call.result.outcome = "return"
           /\ call.result.form = "yaml.dump"
           /\ IF ComposeLike(data, call.old_name)
              THEN /\ ComposeLike(out, call.new_name)
                   /\ ~HasKey(GetItem(out.v, K_services).v, call.old_name)
                   /\ GetItem(GetItem(out.v, K_services).v, call.new_name) =
                        GetItem(GetItem(data.v, K_services).v, call.old_name)
              ELSE IF KubernetesStyle(data, call.old_name)
              THEN KubernetesStyle(out, call.new_name)
              ELSE out = _replace_in_yaml_data(data, call.old_name, call.new_name)

(***************************************************************************)
(* The regular expressions of the text handlers.  An expression is a      *)
(* record; Match finds the match the backtracking matcher of re finds.     *)
(***************************************************************************)

ReLit(chars) == [ op |-> "lit", s |-> chars ]

\* [...] and, with neg, [^...]
ReSet(chars, neg) == [ op |-> "set", cs |-> chars, neg |-> neg ]

ReSeq(rs) == [ op |-> "seq", rs |-> rs ]

ReAlt(rs) == [ op |-> "alt", rs |-> rs ]

\* r{min,max} (max = -1: unbounded), greedy or lazy
ReRep(r, min, max, greedy) ==
  [ op |-> "rep", r |-> r, min |-> min, max |-> max, greedy |-> greedy ]

\* \b
ReB == [ op |-> "b" ]

\* \w
WordChars == { Lc[i] : i \in 1..26 } \cup { Uc[i] : i \in 1..26 } \cup Digits \cup { "_" }

\* . without DOTALL
ReDot == ReSet({ "\n" }, TRUE)

\* \s+ and \s*
ReSpaces(min) == ReRep(ReSet(Whitespace, FALSE), min, -1, TRUE)

\* ["\']
ReQuote == ReSet({ "'", "\"" }, FALSE)

\* the position after the first match, in the order the backtracking
\* matcher of re tries them, of the expressions of todo one after the other
\* from position i of s; 0 when there is no match.  Every repeated
\* expression used here consumes a character.
RECURSIVE Match(_, _, _)
Match(todo, s, i) ==
  IF todo = << >> THEN i
  ELSE LET r    == Head(todo)
           rest == Tail(todo)
       IN  CASE r.op = "lit" ->
                  IF StartsAt(s, i, r.s) THEN Match(rest, s, i + Len(r.s)) ELSE 0
             [] r.op = "set" ->
                  IF i <= Len(s) /\ ((s[i] \in r.cs) # r.neg) THEN Match(rest, s, i + 1) ELSE 0
             [] r.op = "b" ->
                  IF (i > 1 /\ s[i - 1] \in WordChars) # (i <= Len(s) /\ s[i] \in WordChars)
                  THEN Match(rest, s, i) ELSE 0
             [] r.op = "seq" -> Match(r.rs \o rest, s, i)
             [] r.op = "alt" ->
                  IF r.rs = << >> THEN 0
                  ELSE LET first == Match(<< Head(r.rs) >> \o rest, s, i)
                       IN  IF first # 0 THEN first
                           ELSE Match(<< ReAlt(Tail(r.rs)) >> \o rest, s, i)
             [] r.op = "rep" ->
                  LET again == ReRep(r.r, IF r.min > 0 THEN r.min - 1 ELSE 0,
                                     IF r.max > 0 THEN r.max - 1 ELSE r.max, r.greedy)
                      stop == IF r.min = 0 THEN Match(rest, s, i) ELSE 0
                      more == IF r.max = 0 THEN 0 ELSE Match(<< r.r, again >> \o rest, s, i)
                  IN  IF r.greedy THEN (IF more # 0 THEN more ELSE stop)
                      ELSE (IF stop # 0 THEN stop ELSE more)

\* the pieces re.sub cuts s into, left to right: the matches of r, found
\* leftmost and not overlapping (m is TRUE), and the text between them.
\* No expression used here matches the empty string.
RECURSIVE PiecesFrom(_, _, _, _)
PiecesFrom(r, s, pos, last) ==
  IF pos > Len(s)
  THEN (IF last <= Len(s) THEN << [ m |-> FALSE, t |-> SubSeq(s, last, Len(s)) ] >> ELSE << >>)
  ELSE LET end == Match(<< r >>, s, pos)
       IN  IF end = 0 \/ end = pos THEN PiecesFrom(r, s, pos + 1, last)
           ELSE (IF last < pos THEN << [ m |-> FALSE, t |-> SubSeq(s, last, pos - 1) ] >>
                 ELSE << >>)
                  \o << [ m |-> TRUE, t |-> SubSeq(s, pos, end - 1) ] >>
                  \o PiecesFrom(r, s, end, end)

Pieces(r, s) == PiecesFrom(r, s, 1, 1)

\* ''.join
RECURSIVE Concat(_)
Concat(parts) == IF parts = << >> THEN << >> ELSE Head(parts) \o Concat(Tail(parts))

\* the pieces put together again, each match replaced by repl of it
SubPieces(p, repl(_)) ==
  Concat([ k \in 1..Len(p) |-> IF p[k].m THEN repl(p[k].t) ELSE p[k].t ])

\* re.sub(r, repl, s) with a function repl of the matched text
Sub(r, repl(_), s) == SubPieces(Pieces(r, s), repl)

\* the first position of character c in s at or after i, Len(s) + 1 if none
RECURSIVE IndexOf(_, _, _)
IndexOf(s, c, i) == IF i > Len(s) \/ s[i] = c THEN i ELSE IndexOf(s, c, i + 1)

(***************************************************************************)
(* PythonFileHandler                                                       *)
(***************************************************************************)

K_import == << "i", "m", "p", "o", "r", "t" >>

K_from == << "f", "r", "o", "m" >>

K_class == << "c", "l", "a", "s", "s" >>

K_def == << "d", "e", "f" >>

K_version == << "_", "_", "v", "e", "r", "s", "i", "o", "n", "_", "_" >>

F_init_py == << "_", "_", "i", "n", "i", "t", "_", "_", ".", "p", "y" >>

\* rf'keyword\s+{re.escape(old_name)}\b'
KeywordPattern(keyword, old_name) == ReSeq(<< ReLit(keyword), ReSpaces(1), ReLit(old_name), ReB >>)

\* r"(__version__\s*=\s*['\"].*?['\"])"
version_pattern ==
  ReSeq(<< ReLit(K_version), ReSpaces(0), ReLit(<< "=" >>), ReSpaces(0), ReQuote,
           ReRep(ReDot, 0, -1, FALSE), ReQuote >>)

\* _handle_init_file(content)
_handle_init_file(content, old_name, new_name) ==
  StrReplace(
    Sub(version_pattern,
        LAMBDA m : K_version \o << " ", "=", " ", "\"" >> \o new_name \o << "\"" >>,
        content),
    K_from \o << " " >> \o old_name, K_from \o << " " >> \o new_name)

\* _handle_definitions(content)
_handle_definitions(content, old_name, new_name) ==
  Sub(KeywordPattern(K_def, old_name), LAMBDA m : K_def \o << " " >> \o new_name,
      Sub(KeywordPattern(K_class, old_name), LAMBDA m : K_class \o << " " >> \o new_name,
          content))

\* _replace_python_import(match)
_replace_python_import(full_match, old_name, new_name) ==
  IF StartsAt(full_match, 1, K_import \o << " " >>) \/ StartsAt(full_match, 1, K_from \o << " " >>)
  THEN StrReplace(full_match, old_name, new_name)
  ELSE full_match

\* PythonFileHandler(old_name, new_name).process(file_path, content).  Of
\* the four patterns of the loop, the __all__ pattern and the quoted-text
\* pattern match text that starts with neither 'import ' nor 'from ', which
\* _replace_python_import returns as it is: these two passes change nothing.
PythonFileHandler_process(file_path, content, old_name, new_name) ==
  ReturnText(
    Sub(KeywordPattern(K_from, old_name),
        LAMBDA m : _replace_python_import(m, old_name, new_name),
        Sub(KeywordPattern(K_import, old_name),
            LAMBDA m : _replace_python_import(m, old_name, new_name),
            _handle_definitions(
              IF Name(file_path) = F_init_py
              THEN _handle_init_file(content, old_name, new_name) ELSE content,
              old_name, new_name))))

(***************************************************************************)
(* JavaScriptFileHandler                                                   *)
(***************************************************************************)

K_function == << "f", "u", "n", "c", "t", "i", "o", "n" >>

K_const == << "c", "o", "n", "s", "t" >>

K_Component == << "C", "o", "m", "p", "o", "n", "e", "n", "t" >>

\* rf'(?:function|const)\s+{re.escape(old_name)}\s*(?:=|Component)'
comp_pattern(old_name) ==
  ReSeq(<< ReAlt(<< ReLit(K_function), ReLit(K_const) >>), ReSpaces(1), ReLit(old_name),
           ReSpaces(0), ReAlt(<< ReLit(<< "=" >>), ReLit(K_Component) >>) >>)

\* _handle_react_components(content)
_handle_react_components(content, old_name, new_name) ==
  Sub(comp_pattern(old_name), LAMBDA m : K_const \o << " " >> \o new_name \o << " ", "=" >>,
      content)

\* rf'["\']\.\.?/?{re.escape(old_name)}["\']'
ModulePattern(old_name) ==
  << ReQuote, ReLit(<< "." >>), ReRep(ReLit(<< "." >>), 0, 1, TRUE),
     ReRep(ReLit(<< "/" >>), 0, 1, TRUE), ReLit(old_name), ReQuote >>

\* JavaScriptFileHandler(old_name, new_name).process(file_path, content);
\* _replace_js_import(match) is match.group(0).replace(old_name, new_name)
JavaScriptFileHandler_process(file_path, content, old_name, new_name) ==
  ReturnText(
    Sub(ReSeq(<< ReLit(K_from), ReSpaces(0) >> \o ModulePattern(old_name)),
        LAMBDA m : StrReplace(m, old_name, new_name),
        Sub(ReSeq(<< ReLit(K_import), ReSpaces(0), ReLit(old_name) >>),
            LAMBDA m : StrReplace(m, old_name, new_name),
            Sub(ReSeq(<< ReLit(K_import), ReRep(ReDot, 0, -1, FALSE), ReLit(K_from),
                         ReSpaces(1) >> \o ModulePattern(old_name)),
                LAMBDA m : StrReplace(m, old_name, new_name),
                IF Lower(Suffix(Name(file_path))) \in { E_jsx, E_tsx }
                THEN _handle_react_components(content, old_name, new_name)
                ELSE content))))

(***************************************************************************)
(* MarkdownFileHandler                                                     *)
(***************************************************************************)

K_require == << "r", "e", "q", "u", "i", "r", "e" >>

\* the character U+0060 (GRAVE ACCENT), which a string of this language
\* cannot hold
Backtick == "GRAVE"

K_fence == << Backtick, Backtick, Backtick >>

L_python == << "p", "y", "t", "h", "o", "n" >>

L_javascript == << "j", "a", "v", "a", "s", "c", "r", "i", "p", "t" >>

L_js == << "j", "s" >>

L_typescript == << "t", "y", "p", "e", "s", "c", "r", "i", "p", "t" >>

L_ts == << "t", "s" >>

\* _get_handler_for_language(language)
_get_handler_for_language(language) ==
  IF Lower(language) = L_python THEN "PythonFileHandler"
  ELSE IF Lower(language) \in { L_javascript, L_js, L_typescript, L_ts }
  THEN "JavaScriptFileHandler"
  ELSE "None"

\* \w*
ReWord == ReRep(ReSet(WordChars, FALSE), 0, -1, TRUE)

\* the language and the code of a code block handed to the handler of the
\* language, if there is one
HandleLanguage(language, code_content, old_name, new_name) ==
  LET temp == << << "t", "e", "m", "p", "." >> \o language >>
  IN  CASE language = << >> -> code_content
        [] _get_handler_for_language(language) = "PythonFileHandler" ->
             PythonFileHandler_process(temp, code_content, old_name, new_name).text
        [] _get_handler_for_language(language) = "JavaScriptFileHandler" ->
             JavaScriptFileHandler_process(temp, code_content, old_name, new_name).text
        [] OTHER -> code_content

\* _process_code_block(code_block): language is group 1 of the three
\* backticks and (\w+)? at the start of the block, code_content the block
\* with each match of three backticks, \w*, \n, ([\s\S]*?), three backticks
\* replaced by its group 1
_process_code_block(code_block, old_name, new_name) ==
  LET language == SubSeq(code_block, 4, Match(<< ReWord >>, code_block, 4) - 1)
  IN  K_fence \o language \o << "\n" >>
        \o HandleLanguage(
             language,
             Sub(ReSeq(<< ReLit(K_fence), ReWord, ReLit(<< "\n" >>),
                          ReRep(ReSet({ }, TRUE), 0, -1, FALSE), ReLit(K_fence) >>),
                 LAMBDA m : SubSeq(m, IndexOf(m, "\n", 1) + 1, Len(m) - 3),
                 code_block),
             old_name, new_name)
        \o << "\n" >> \o K_fence

\* _process_inline_code(code)
_process_inline_code(code, old_name, new_name) ==
  IF Contains(code, K_import) \/ Contains(code, K_from) \/ Contains(code, K_require)
  THEN StrReplace(code, old_name, new_name)
  ELSE << Backtick >> \o code \o << Backtick >>

\* the pattern of an inline code span: a backtick, ([^backtick]*?), a backtick
inline_code_pattern ==
  ReSeq(<< ReLit(<< Backtick >>), ReRep(ReSet({ Backtick }, TRUE), 0, -1, FALSE),
           ReLit(<< Backtick >>) >>)

\* rf'\[([^\]]*?)\]\([^)]*?{re.escape(old_name)}[^)]*?\)'
link_pattern(old_name) ==
  ReSeq(<< ReLit(<< "[" >>), ReRep(ReSet({ "]" }, TRUE), 0, -1, FALSE),
           ReLit(<< "]", "(" >>), ReRep(ReSet({ ")" }, TRUE), 0, -1, FALSE),
           ReLit(old_name), ReRep(ReSet({ ")" }, TRUE), 0, -1, FALSE),
           ReLit(<< ")" >>) >>)

\* MarkdownFileHandler(old_name, new_name).process(file_path, content): the
\* links, the code blocks (three backticks, [\s\S]*?, three backticks), the
\* inline code, and the general replacement
MarkdownFileHandler_process(file_path, content, old_name, new_name) ==
  ReturnText(
    StrReplace(
      Sub(inline_code_pattern,
          LAMBDA m : _process_inline_code(SubSeq(m, 2, Len(m) - 1), old_name, new_name),
          Sub(ReSeq(<< ReLit(K_fence), ReRep(ReSet({ }, TRUE), 0, -1, FALSE),
                       ReLit(K_fence) >>),
              LAMBDA m : _process_code_block(m, old_name, new_name),
              Sub(link_pattern(old_name),
                  LAMBDA m : SubSeq(m, 1, IndexOf(m, "]", 1)) \o << "(" >> \o new_name
                               \o << ")" >>,
                  content))),
      old_name, new_name))

(***************************************************************************)
(* The text handlers on their own: one call of process per behaviour.     *)
(* A content is a head followed by at most MaxTokens tokens.              *)
(***************************************************************************)

MaxTokens == 3

\* the concatenations of at most n of the tokens
RECURSIVE TokenStrings(_, _)
TokenStrings(tokens, n) ==
  IF n = 0 THEN { << >> }
  ELSE LET shorter == TokenStrings(tokens, n - 1)
       IN  shorter \cup { s \o t : s \in shorter, t \in tokens }

\* pieces of Python source
PyTokens ==
  { << "i", "m", "p", "o", "r", "t", " " >>,
    << "f", "r", "o", "m", "\t" >>,
    << "c", "l", "a", "s", "s", " " >>,
    << "d", "e", "f", " " >>,
    << "a", "b" >>,
    << "x" >>,
    << "\n" >> }

\* first lines of Python source
PyHeads ==
  { << >>,
    << "_", "_", "v", "e", "r", "s", "i", "o", "n", "_", "_", "=", "'", "1", "'", "\n" >> }

\* pieces of JavaScript source
JsTokens ==
  { << "i", "m", "p", "o", "r", "t", " " >>,
    << "f", "r", "o", "m", " " >>,
    << "'", ".", "/", "a", "b", "'" >>,
    << "c", "o", "n", "s", "t", " " >>,
    << "a", "b" >>,
    << "=" >>,
    << "x" >> }

\* pieces of Markdown text
MdTokens ==
  { << Backtick >>,
    << Backtick, Backtick, Backtick >>,
    << "j", "s", "\n" >>,
    << "a", "b" >>,
    << "i", "m", "p", "o", "r", "t", " " >>,
    << "\n" >>,
    << "[", "t", "]", "(" >>,
    << ")" >> }

F_m_py == << "m", ".", "p", "y" >>

F_x_js == << "x", ".", "j", "s" >>

F_x_jsx == << "x", ".", "j", "s", "x" >>

F_r_md == << "r", ".", "m", "d" >>

TextCalls ==
  [ fn : { "PythonFileHandler.process" },
    file_path : { << F_init_py >>, << F_m_py >> },
    content : { h \o t : h \in PyHeads, t \in TokenStrings(PyTokens, MaxTokens) },
    old_name : { N_ab }, new_name : { << "b" >> }, done : { FALSE }, result : { NoResult } ]
    \cup
  [ fn : { "JavaScriptFileHandler.process" },
    file_path : { << F_x_js >>, << F_x_jsx >> },
    content : TokenStrings(JsTokens, MaxTokens),
    old_name : { N_ab }, new_name : { << "b" >> }, done : { FALSE }, result : { NoResult } ]
    \cup
  [ fn : { "MarkdownFileHandler.process" },
    file_path : { << F_r_md >> },
    content : TokenStrings(MdTokens, MaxTokens),
    old_name : { N_ab }, new_name : { << "b" >> }, done : { FALSE }, result : { NoResult } ]

InitText ==
  /\ call \in TextCalls
  /\ config = [ old_name |-> call.old_name, new_name |-> call.new_name,
                backup_enabled |-> FALSE, dry_run |-> FALSE,
                case_sensitive |-> TRUE, preserve_case |-> FALSE ]
  /\ fs = [ dirs |-> { }, files |-> (call.file_path :> call.content) ]
  /\ tree0 = fs
  /\ NoRun

PythonHandlerProcess ==
  /\ pc = "call"
  /\ call.fn = "PythonFileHandler.process"
  /\ ~call.done
  /\ call' = [ call EXCEPT
                 !.done = TRUE,
                 !.result = PythonFileHandler_process(call.file_path, call.content,
                                                      call.old_name, call.new_name) ]
  /\ UNCHANGED << config, env, fs, pc, walk, scan_results, idx, success, changed_files,
                  errors, backup_paths, result, tree0, ops, reported, attempted >>

JavaScriptHandlerProcess ==
  /\ pc = "call"
  /\ call.fn = "JavaScriptFileHandler.process"
  /\ ~call.done
  /\ call' = [ call EXCEPT
                 !.done = TRUE,
                 !.result = JavaScriptFileHandler_process(call.file_path, call.content,
                                                          call.old_name, call.new_name) ]
  /\ UNCHANGED << config, env, fs, pc, walk, scan_results, idx, success, changed_files,
                  errors, backup_paths, result, tree0, ops, reported, attempted >>

MarkdownHandlerProcess ==
  /\ pc = "call"
  /\ call.fn = "MarkdownFileHandler.process"
  /\ ~call.done
  /\ call' = [ call EXCEPT
                 !.done = TRUE,
                 !.result = MarkdownFileHandler_process(call.file_path, call.content,
                                                        call.old_name, call.new_name) ]
  /\ UNCHANGED << config, env, fs, pc, walk, scan_results, idx, success, changed_files,
                  errors, backup_paths, result, tree0, ops, reported, attempted >>

NextText == PythonHandlerProcess \/ JavaScriptHandlerProcess \/ MarkdownHandlerProcess

SpecText == InitText /\ [][NextText]_vars

\* C24: the Python and JavaScript/TypeScript handlers end with a blanket
\* rewriting pass: where new differs from old and does not contain it, the
\* text process returns holds no occurrence of old, wherever the occurrence
\* was in the source text.
C24_SourceHandlersLeaveNoOld ==
  (/\ call.fn \in { "PythonFileHandler.process", "JavaScriptFileHandler.process" }
   /\ call.done
   /\ call.old_name # call.new_name
   /\ ~Contains(call.new_name, call.old_name))
    => /\ call.result.outcome = "return"
       /\ ~Contains(call.result.text, call.old_name)

\* the inline code spans of a text, in order, delimiters included
InlineSpans(text) ==
  LET p == Pieces(inline_code_pattern, text)
      IsSpan(piece) == piece.m
      spans == SelectSeq(p, IsSpan)
  IN  [ k \in 1..Len(spans) |-> spans[k].t ]

\* C25: in a Markdown text without fenced blocks and links, every inline
\* code span keeps its backtick delimiters (the output has the same number
\* of spans as the input), and a span that contains old but none of
\* import, from and require is the same in the output as in the input.
C25_InlineSpansKept ==
  (/\ call.fn = "MarkdownFileHandler.process"
   /\ call.done
   /\ ~Contains(call.content, K_fence)
   /\ ~Contains(call.content, << "[" >>))
    => /\ call.result.outcome = "return"
       /\ LET before == InlineSpans(call.content)
              after  == InlineSpans(call.result.text)
          IN  /\ Len(after) = Len(before)
              /\ \A k \in 1..Len(before) :
                   (/\ Contains(before[k], call.old_name)
                    /\ ~Contains(before[k], K_import)
                    /\ ~Contains(before[k], K_from)
                    /\ ~Contains(before[k], K_require))
                     => after[k] = before[k]

\* C29: the Markdown and Python handlers are no-ops when old is absent: for
\* a content that holds no occurrence of old, fenced blocks, inline spans
\* and the __version__ line of an __init__.py included, process returns the
\* content exactly as it was.
C29_NoOldNoChange ==
  (/\ call.fn \in { "MarkdownFileHandler.process", "PythonFileHandler.process" }
   /\ call.done
   /\ ~Contains(call.content, call.old_name))
    => call.result = ReturnText(call.content)

(***************************************************************************)
(* Further properties of a run                                             *)
(***************************************************************************)

\* the forms of new that _generate_new_name can return
NewVariants ==
  { config.new_name, Lower(config.new_name), Upper(config.new_name), Title(config.new_name),
    to_snake_case(config.new_name), to_pascal_case(config.new_name) }

\* C26: renaming a file keeps its extension: the new path _rename_file
\* computes for a file that _should_rename_file accepted has the suffix of
\* the original name, and its stem is a variant of new.
C26_RenameKeepsExtension ==
  \A d \in attempted :
    (d.op = "rename_file" /\ ~InvalidIdentifiers(config))
      => /\ Suffix(Name(d.target)) = Suffix(Name(d.path))
         /\ Stem(Name(d.target)) \in NewVariants

\* C27: the status of a run agrees with its summary: when rename_project
\* has returned, it returned False if and only if the error list is not
\* empty, and every path in changed_files is the path of an operation that
\* succeeded.
C27_StatusAgreesWithSummary ==
  (pc = "done" /\ ~InvalidIdentifiers(config))
    => /\ (result = "False") <=> (errors # << >>)
       /\ \A i \in 1..Len(changed_files) :
            config.dry_run
              \/ \E j \in 1..Len(ops) :
                   /\ ops[j].op \in { "rename_file", "write" }
                   /\ ops[j].path = changed_files[i]
                   /\ ops[j].outcome = "ok"

\* C28: the backup made at the start of a run is never altered by the run:
\* no path inside the backup directory is scheduled by the scan, and every
\* file that was copied is in the backup under its name and with the
\* content the project had before the run.
C28_BackupNotAltered ==
  (backup_paths # << >> /\ ~InvalidIdentifiers(config))
    => /\ \A p \in SeqRange(scan_results.files_to_rename)
                     \cup SeqRange(scan_results.directories_to_rename)
                     \cup SeqRange(scan_results.files_to_modify) :
            ~IsAncestor(<< BackupName >>, p) /\ p # << BackupName >>
       /\ \A p \in DOMAIN tree0.files :
            Copied(p) => /\ IsFile(fs, << BackupName >> \o p)
                         /\ fs.files[<< BackupName >> \o p] = tree0.files[p]

(***************************************************************************)
(* ConfigLoader.load_config on its own, as cli.main calls it with --config *)
(***************************************************************************)

\* what a configuration file says about a boolean setting
FileSettings == { "unset", "true", "false" }

\* an environment variable: not set, or set to a text
EnvUnset == [ set |-> FALSE, value |-> << >> ]

EnvSet(chars) == [ set |-> TRUE, value |-> chars ]

EnvValues ==
  { EnvUnset, EnvSet(K_true), EnvSet(<< "T", "R", "U", "E" >>), EnvSet(K_false),
    EnvSet(<< "1" >>) }

\* the fields of ProjectRenamerConfig that the merge is followed for
ConfigOf(old_name, new_name, backup_enabled, dry_run) ==
  [ old_name |-> old_name, new_name |-> new_name, backup_enabled |-> backup_enabled,
    dry_run |-> dry_run, case_sensitive |-> FALSE, preserve_case |-> TRUE ]

\* _load_from_config_file(config_path) and _dict_to_config(data): a setting
\* the file leaves out has the default of the dataclass
_load_from_config_file(file) ==
  ConfigOf(file.old_name, file.new_name,
           IF file.backup_enabled = "unset" THEN TRUE ELSE file.backup_enabled = "true",
           IF file.dry_run = "unset" THEN FALSE ELSE file.dry_run = "true")

\* _load_from_environment(config): PR_BACKUP_ENABLED and PR_DRY_RUN, each
\* converted by x.lower() == 'true'
_load_from_environment(c, environ) ==
  [ c EXCEPT
      !.backup_enabled = IF environ.PR_BACKUP_ENABLED.set
                         THEN Lower(environ.PR_BACKUP_ENABLED.value) = K_true ELSE @,
      !.dry_run = IF environ.PR_DRY_RUN.set
                  THEN Lower(environ.PR_DRY_RUN.value) = K_true ELSE @ ]

\* _load_from_args(config, old_name, new_name, project_path, **kwargs) with
\* the keyword arguments of cli.main: dry_run=args.dry_run,
\* backup_enabled=not args.no_backup, case_sensitive=args.case_sensitive,
\* preserve_case=args.preserve_case.  << >> is the None of a positional that
\* was not given.
_load_from_args(c, args) ==
  [ c EXCEPT
      !.old_name = IF args.old_name # << >> THEN args.old_name ELSE @,
      !.new_name = IF args.new_name # << >> THEN args.new_name ELSE @,
      !.dry_run = args.dry_run,
      !.backup_enabled = ~args.no_backup,
      !.case_sensitive = args.case_sensitive,
      !.preserve_case = args.preserve_case ]

\* ConfigLoader.load_config(config_path, old_name, new_name, project_path,
\* **kwargs): the configuration returned, or the exception raised
load_config(file, environ, args) ==
  LET merged == _load_from_args(_load_from_environment(_load_from_config_file(file), environ),
                                args)
  IN  IF _validate_and_finalize(merged) = "ok"
      THEN [ outcome |-> "return", config |-> merged ]
      ELSE [ outcome |-> "ValueError", config |-> merged ]

InitConfig ==
  /\ call \in [ fn : { "ConfigLoader.load_config" },
                file : [ old_name : { << >>, N_ab }, new_name : { N_c },
                         backup_enabled : FileSettings, dry_run : FileSettings ],
                environ : [ PR_BACKUP_ENABLED : { EnvUnset, EnvSet(K_false) },
                            PR_DRY_RUN : EnvValues ],
                args : [ old_name : { << >>, N_ab }, new_name : { << >> },
                         dry_run : BOOLEAN, no_backup : BOOLEAN,
                         case_sensitive : { FALSE }, preserve_case : { FALSE } ],
                done : { FALSE },
                result : { [ outcome |-> "none", config |-> ConfigOf(<< >>, << >>, TRUE, FALSE) ] } ]
  /\ config = call.result.config
  /\ fs = [ dirs |-> { }, files |-> << >> ]
  /\ tree0 = fs
  /\ NoRun

LoadConfig ==
  /\ pc = "call"
  /\ call.fn = "ConfigLoader.load_config"
  /\ ~call.done
  /\ call' = [ call EXCEPT !.done = TRUE,
                           !.result = load_config(call.file, call.environ, call.args) ]
  /\ config' = call'.result.config
  /\ UNCHANGED << env, fs, pc, walk, scan_results, idx, success, changed_files,
                  errors, backup_paths, result, tree0, ops, reported, attempted >>

NextConfig == LoadConfig

SpecConfig == InitConfig /\ [][NextConfig]_vars

\* C30: merging the sources never turns a requested dry run into a live
\* run: where the file and the environment give dry_run = true and the
\* command line does not pass --dry-run, the configuration load_config
\* returns has dry_run = true; and backup_enabled = true from the file is
\* kept unless --no-backup is passed.
C30_MergeKeepsDryRun ==
  (/\ call.fn = "ConfigLoader.load_config"
   /\ call.done
   /\ call.result.outcome = "return")
    => /\ (/\ _load_from_environment(_load_from_config_file(call.file), call.environ).dry_run
           /\ ~call.args.dry_run)
            => call.result.config.dry_run
       /\ (call.file.backup_enabled = "true" /\ ~call.args.no_backup)
            => call.result.config.backup_enabled

====
